---- MODULE Spec2Model ----
(***************************************************************************)
(* Model of the result-typed fetch layer (api.ts: safeRequest, safeFetch,  *)
(* safePost, safePut, safePatch, safeDelete, safePostUpload, safeDownload, *)
(* safePostDownload), of the tagged errors (lib/errors.ts), of the         *)
(* error-to-message adapter (lib/errorWrapper.ts), of the services and     *)
(* hooks built on the layer, and of the caching client's construction.     *)
(*                                                                         *)
(* Spec follows one call of a fetch-layer function, made directly or by a  *)
(* hook through its service, from its synchronous prologue through its two *)
(* suspension points (the HTTP call and the body read) to the value its    *)
(* promise settles with.  The host (fetch, the Response body readers) is   *)
(* the environment: its outcomes are the inputs of the FetchResolves /     *)
(* FetchRejects / BodyResolves / BodyRejects steps.  SpecClient follows    *)
(* the QueryClient instances of a server or browser process; SpecConc      *)
(* follows several fetch-layer calls in flight at once.                    *)
(***************************************************************************)
EXTENDS Integers, Sequences, FiniteSets, TLC

(***************************************************************************)
(* JavaScript values.  Text is a sequence of one-character strings; a JSON *)
(* value is a record tagged by kind.  Objects keep their members as a      *)
(* sequence of <<key, value>> pairs in insertion order.                    *)
(***************************************************************************)
JNull == [kind |-> "null", val |-> 0]
JBool(b) == [kind |-> "boolean", val |-> b]
JNum(n) == [kind |-> "number", val |-> n]
JStr(s) == [kind |-> "string", val |-> s]
JArr(s) == [kind |-> "array", val |-> s]
JObj(m) == [kind |-> "object", val |-> m]
\* values JSON.stringify cannot serialise or serialises to undefined
JUndefined == [kind |-> "undefined", val |-> 0]
JCircular == [kind |-> "circular", val |-> 0]
JBigInt(n) == [kind |-> "bigint", val |-> n]

Digits == <<"0", "1", "2", "3", "4", "5", "6", "7", "8", "9">>
IsDigit(c) == \E d \in 1..10 : Digits[d] = c
DigitVal(c) == (CHOOSE d \in 1..10 : Digits[d] = c) - 1

(***************************************************************************)
(* Response.json(): JSON.parse of the body text, for the JSON subset       *)
(* null | true | false | non-negative integer | string without escapes |   *)
(* array | object, with blanks between tokens.  A parse step returns       *)
(* [ok, val, next]: whether a value was read at position i, the value,     *)
(* and the position after it.                                              *)
(***************************************************************************)
ParseFail == [ok |-> FALSE, val |-> JNull, next |-> 0]
ParseOk(v, n) == [ok |-> TRUE, val |-> v, next |-> n]

RECURSIVE SkipWs(_, _)
SkipWs(t, i) ==
    IF i <= Len(t) /\ t[i] = " " THEN SkipWs(t, i + 1) ELSE i

MatchLit(t, i, lit) ==
    /\ i + Len(lit) - 1 <= Len(t)
    /\ SubSeq(t, i, i + Len(lit) - 1) = lit

RECURSIVE ParseDigits(_, _, _)
ParseDigits(t, i, acc) ==
    IF i <= Len(t) /\ IsDigit(t[i])
    THEN ParseDigits(t, i + 1, acc * 10 + DigitVal(t[i]))
    ELSE ParseOk(JNum(acc), i)

\* a leading zero ends the number: "01" is not JSON
ParseNumber(t, i) ==
    IF t[i] = "0" THEN ParseOk(JNum(0), i + 1)
    ELSE ParseDigits(t, i, 0)

RECURSIVE StringEnd(_, _)
StringEnd(t, i) ==
    IF i > Len(t) THEN 0
    ELSE IF t[i] = "\"" THEN i
    ELSE StringEnd(t, i + 1)

\* t[i] is the opening quote
ParseString(t, i) ==
    LET j == StringEnd(t, i + 1)
    IN  IF j = 0 THEN ParseFail
        ELSE ParseOk(JStr(SubSeq(t, i + 1, j - 1)), j + 1)

\* a repeated key keeps its first position and takes the last value
PutMember(m, k, v) ==
    IF \E p \in 1..Len(m) : m[p][1] = k
    THEN [p \in 1..Len(m) |-> IF m[p][1] = k THEN <<k, v>> ELSE m[p]]
    ELSE Append(m, <<k, v>>)

RECURSIVE ParseValue(_, _), ParseElements(_, _, _), ParseMembers(_, _, _)
ParseValue(t, i0) ==
    LET i == SkipWs(t, i0)
    IN  IF i > Len(t) THEN ParseFail
        ELSE IF MatchLit(t, i, <<"n", "u", "l", "l">>) THEN ParseOk(JNull, i + 4)
        ELSE IF MatchLit(t, i, <<"t", "r", "u", "e">>) THEN ParseOk(JBool(TRUE), i + 4)
        ELSE IF MatchLit(t, i, <<"f", "a", "l", "s", "e">>) THEN ParseOk(JBool(FALSE), i + 5)
        ELSE IF IsDigit(t[i]) THEN ParseNumber(t, i)
        ELSE IF t[i] = "\"" THEN ParseString(t, i)
        ELSE IF t[i] = "["
             THEN LET j == SkipWs(t, i + 1)
                  IN  IF j <= Len(t) /\ t[j] = "]" THEN ParseOk(JArr(<<>>), j + 1)
                      ELSE ParseElements(t, j, <<>>)
        ELSE IF t[i] = "{"
             THEN LET j == SkipWs(t, i + 1)
                  IN  IF j <= Len(t) /\ t[j] = "}" THEN ParseOk(JObj(<<>>), j + 1)
                      ELSE ParseMembers(t, j, <<>>)
        ELSE ParseFail

\* elements after "[" or ","; acc holds the elements read so far
ParseElements(t, i, acc) ==
    LET r == ParseValue(t, i)
    IN  IF ~r.ok THEN ParseFail
        ELSE LET j == SkipWs(t, r.next)
             IN  IF j > Len(t) THEN ParseFail
                 ELSE IF t[j] = "]" THEN ParseOk(JArr(Append(acc, r.val)), j + 1)
                 ELSE IF t[j] = "," THEN ParseElements(t, j + 1, Append(acc, r.val))
                 ELSE ParseFail

\* members after "{" or ","; acc holds the members read so far
ParseMembers(t, i0, acc) ==
    LET i == SkipWs(t, i0)
    IN  IF i > Len(t) \/ t[i] # "\"" THEN ParseFail
        ELSE LET k == ParseString(t, i)
             IN  IF ~k.ok THEN ParseFail
                 ELSE LET c == SkipWs(t, k.next)
                      IN  IF c > Len(t) \/ t[c] # ":" THEN ParseFail
                          ELSE LET r == ParseValue(t, c + 1)
                               IN  IF ~r.ok THEN ParseFail
                                   ELSE LET j == SkipWs(t, r.next)
                                            m == PutMember(acc, k.val.val, r.val)
                                        IN  IF j > Len(t) THEN ParseFail
                                            ELSE IF t[j] = "}" THEN ParseOk(JObj(m), j + 1)
                                            ELSE IF t[j] = "," THEN ParseMembers(t, j + 1, m)
                                            ELSE ParseFail

\* JSON.parse(text): the whole text must be one value
JSONParse(t) ==
    LET r == ParseValue(t, 1)
    IN  IF r.ok /\ SkipWs(t, r.next) = Len(t) + 1 THEN r ELSE ParseFail


\* the SyntaxError Response.json() rejects with for a body that is not JSON
JsonSyntaxError(t) ==
    [class |-> "SyntaxError",
     message |-> IF Len(t) = 0 THEN "Unexpected end of JSON input"
                 ELSE "Unexpected token in JSON"]

(***************************************************************************)
(* JSON.stringify(value): [threw, undef, text].  It throws a TypeError for *)
(* a circular structure and for a BigInt, and returns undefined (no text)  *)
(* for undefined.                                                          *)
(***************************************************************************)
RECURSIVE NumText(_)
NumText(n) ==
    IF n < 10 THEN <<Digits[n + 1]>>
    ELSE Append(NumText(n \div 10), Digits[(n % 10) + 1])

RECURSIVE ValueText(_), ElementsText(_, _), MembersText(_, _)
ValueText(v) ==
    CASE v.kind = "null" -> <<"n", "u", "l", "l">>
      [] v.kind = "boolean" -> IF v.val THEN <<"t", "r", "u", "e">>
                               ELSE <<"f", "a", "l", "s", "e">>
      [] v.kind = "number" -> NumText(v.val)
      [] v.kind = "string" -> <<"\"">> \o v.val \o <<"\"">>
      [] v.kind = "array" -> <<"[">> \o ElementsText(v.val, 1) \o <<"]">>
      [] v.kind = "object" -> <<"{">> \o MembersText(v.val, 1) \o <<"}">>

ElementsText(s, i) ==
    IF i > Len(s) THEN <<>>
    ELSE (IF i > 1 THEN <<",">> ELSE <<>>) \o ValueText(s[i]) \o ElementsText(s, i + 1)

MembersText(m, i) ==
    IF i > Len(m) THEN <<>>
    ELSE (IF i > 1 THEN <<",">> ELSE <<>>)
         \o <<"\"">> \o m[i][1] \o <<"\"", ":">> \o ValueText(m[i][2])
         \o MembersText(m, i + 1)

StringifyTypeError(v) ==
    [class |-> "TypeError",
     message |-> IF v.kind = "bigint" THEN "Do not know how to serialize a BigInt"
                 ELSE "Converting circular structure to JSON"]

JSONStringify(v) ==
    IF v.kind \in {"circular", "bigint"}
    THEN [threw |-> TRUE, undef |-> FALSE, text |-> <<>>]
    ELSE IF v.kind = "undefined"
    THEN [threw |-> FALSE, undef |-> TRUE, text |-> <<>>]
    ELSE [threw |-> FALSE, undef |-> FALSE, text |-> ValueText(v)]

(***************************************************************************)
(* Objects.  An options object is a function from its own keys to values;  *)
(* NoOptions stands for undefined and for {} alike (spreading either adds  *)
(* nothing).  A headers object is a sequence of <<name, value>> pairs in   *)
(* key order, because the order decides how the host joins two keys that   *)
(* name the same header.                                                   *)
(***************************************************************************)
NoOptions == [k \in {} |-> ""]

\* { ...a, ...b }: the keys of b are written over those of a
Spread(a, b) ==
    [k \in DOMAIN a \cup DOMAIN b |-> IF k \in DOMAIN b THEN b[k] ELSE a[k]]

\* options?.headers, as the list of members the spread copies
OptionHeaders(options) ==
    IF "headers" \in DOMAIN options THEN options["headers"] ELSE <<>>

RECURSIVE SpreadMembers(_, _, _)
SpreadMembers(a, b, i) ==
    IF i > Len(b) THEN a
    ELSE SpreadMembers(PutMember(a, b[i][1], b[i][2]), b, i + 1)

\* { "Content-Type": "application/json", ...options?.headers }
JsonHeaders(options) ==
    SpreadMembers(<<<<"Content-Type", "application/json">>>>, OptionHeaders(options), 1)


(***************************************************************************)
(* lib/errors.ts: the three tagged errors.  A thrown host value is a       *)
(* record [class, message]; class "string" is a thrown non-Error value,    *)
(* whose String(...) is its message field.                                 *)
(***************************************************************************)
IsErrorInstance(e) == e.class \in {"Error", "TypeError", "SyntaxError", "DOMException"}

\* cause instanceof Error ? cause.message : String(cause); a thrown string
\* is kept in the message field, so both branches read that field
CauseMessage(cause) ==
    IF IsErrorInstance(cause) THEN cause.message ELSE cause.message

ApiError(status, statusText, url) ==
    [tag |-> "ApiError", class |-> "ApiError",
     status |-> status, statusText |-> statusText, url |-> url,
     message |-> "API request failed: " \o ToString(status) \o " " \o statusText
                 \o " (" \o url \o ")"]

NetworkError(url, cause) ==
    [tag |-> "NetworkError", class |-> "NetworkError",
     url |-> url, cause |-> cause,
     message |-> "Network error fetching " \o url \o ": " \o CauseMessage(cause)]

ParseError(cause) ==
    [tag |-> "ParseError", class |-> "ParseError",
     cause |-> cause,
     message |-> "Failed to parse response: " \o CauseMessage(cause)]

\* better-result: Result.ok / Result.err
Ok(v) == [status |-> "ok", value |-> v]
Err(e) == [status |-> "error", error |-> e]
isErr(r) == r.status = "error"

(***************************************************************************)
(* api.ts                                                                  *)
(***************************************************************************)
\* response.ok taken to cover every status below 400
ResponseOkBelow400(response) == response.status >= 200 /\ response.status < 400

\* response.ok taken to be status 200 alone
ResponseOkOnly200(response) == response.status = 200

\* response.ok
ResponseOk(response) == response.status >= 200 /\ response.status <= 299

\* try block of safeRequest once fetch has resolved: [threw, value]
safeRequestTry(url, response) ==
    IF ~ResponseOk(response)
    THEN [threw |-> TRUE,
          value |-> ApiError(response.status, response.statusText, url)]
    ELSE [threw |-> FALSE, value |-> response]

\* catch handler of safeRequest that classifies a TypeError and hands any
\* other thrown value back as it came
safeRequestCatchTypeErrorOnly(url, error) ==
    IF error.class = "ApiError" THEN error
    ELSE IF error.class = "TypeError" THEN NetworkError(url, error)
    ELSE error

\* catch handler of safeRequest; the TypeError branch and the fall-through
\* construct the same NetworkError
safeRequestCatch(url, error) ==
    IF error.class = "ApiError" THEN error
    ELSE IF error.class = "TypeError" THEN NetworkError(url, error)
    ELSE NetworkError(url, error)

\* Result.tryPromise around safeRequest's try block, fetch having resolved
safeRequestResolved(url, response) ==
    LET t == safeRequestTry(url, response)
    IN  IF t.threw THEN Err(safeRequestCatch(url, t.value)) ELSE Ok(t.value)

\* Result.tryPromise around safeRequest's try block, fetch having rejected
safeRequestRejected(url, error) == Err(safeRequestCatch(url, error))

\* catch handler of safeFetch that returns the caught value unclassified
safeFetchCatchUnclassified(url, error) == error

\* catch handler of safeFetch without the SyntaxError test
safeFetchCatchAllNetwork(url, error) == NetworkError(url, error)

\* catch handler of safeFetch that takes every decode failure for a parse
\* failure
safeFetchCatchAllParse(url, error) == ParseError(error)

\* catch handler of safeFetch
safeFetchCatch(url, error) ==
    IF error.class = "SyntaxError" THEN ParseError(error)
    ELSE NetworkError(url, error)

\* response.json() that gives null for an empty body
ResponseJsonEmptyIsNull(response) ==
    LET p == JSONParse(response.body)
    IN  IF p.ok THEN [threw |-> FALSE, value |-> p.val]
        ELSE IF response.body = <<>> THEN [threw |-> FALSE, value |-> JNull]
        ELSE [threw |-> TRUE, value |-> JsonSyntaxError(response.body)]

\* response.json() on a body the host has delivered: [threw, value]
ResponseJson(response) ==
    LET p == JSONParse(response.body)
    IN  IF p.ok THEN [threw |-> FALSE, value |-> p.val]
        ELSE [threw |-> TRUE, value |-> JsonSyntaxError(response.body)]

\* safeFetch that wraps the body text without decoding it
safeFetchUndecoded(url, response) == Ok(response.body)

\* Result.tryPromise around responseResult.value.json(), body delivered
safeFetchDecoded(url, response) ==
    LET j == ResponseJson(response)
    IN  IF j.threw THEN Err(safeFetchCatch(url, j.value)) ELSE Ok(j.value)

\* Result.tryPromise around responseResult.value.json(), body read failed
safeFetchReadFailed(url, error) == Err(safeFetchCatch(url, error))

\* the error of safeRequest wrapped again instead of handed on
PropagateErrRewrapped(responseResult) ==
    Err(NetworkError(responseResult.error.url, responseResult.error))

\* safeFetch / safeDownload / safePostDownload: if (responseResult.isErr())
\*     return Result.err(responseResult.error)
PropagateErr(responseResult) == Err(responseResult.error)


(***************************************************************************)
(* Downloads.  A header value is [isNull, text]: Headers.get returns null  *)
(* for an absent header.                                                   *)
(***************************************************************************)
Null == [isNull |-> TRUE, text |-> <<>>]
Text(t) == [isNull |-> FALSE, text |-> t]

\* first position >= i holding a character of stop, or Len(t) + 1
RECURSIVE SkipUntil(_, _, _)
SkipUntil(t, i, stop) ==
    IF i > Len(t) \/ t[i] \in stop THEN i ELSE SkipUntil(t, i + 1, stop)

\* (['"]).*?\2 from the opening quote at g: the position of the first same
\* quote with no line terminator before it, or 0
RECURSIVE ClosingQuote(_, _, _)
ClosingQuote(t, i, q) ==
    IF i > Len(t) \/ t[i] \in {"\n", "\r"} THEN 0
    ELSE IF t[i] = q THEN i
    ELSE ClosingQuote(t, i + 1, q)

\* /filename[^;=\n]*=((['"]).*?\2|[^;\n]*)/ tried at position i: [ok, group]
FilenameMatchAt(t, i) ==
    IF ~MatchLit(t, i, <<"f", "i", "l", "e", "n", "a", "m", "e">>)
    THEN [ok |-> FALSE, group |-> <<>>]
    ELSE LET j == SkipUntil(t, i + 8, {";", "=", "\n"})
         IN  IF j > Len(t) \/ t[j] # "="
             THEN [ok |-> FALSE, group |-> <<>>]
             ELSE LET g == j + 1
                      c == IF g <= Len(t) /\ t[g] \in {"'", "\""}
                           THEN ClosingQuote(t, g + 1, t[g]) ELSE 0
                      e == SkipUntil(t, g, {";", "\n"})
                  IN  IF c # 0 THEN [ok |-> TRUE, group |-> SubSeq(t, g, c)]
                      ELSE [ok |-> TRUE, group |-> SubSeq(t, g, e - 1)]

\* String.prototype.match without the g flag: the leftmost match
RECURSIVE FilenameMatch(_, _)
FilenameMatch(t, i) ==
    IF i > Len(t) THEN [ok |-> FALSE, group |-> <<>>]
    ELSE LET m == FilenameMatchAt(t, i)
         IN  IF m.ok THEN m ELSE FilenameMatch(t, i + 1)

\* .replace(/['"]/g, "")
StripQuotes(t) == SelectSeq(t, LAMBDA c : c \notin {"'", "\""})

extractFilename(contentDisposition) ==
    IF contentDisposition.isNull \/ contentDisposition.text = <<>> THEN Null
    ELSE LET filenameMatch == FilenameMatch(contentDisposition.text, 1)
         IN  IF filenameMatch.ok /\ filenameMatch.group # <<>>
             THEN Text(StripQuotes(filenameMatch.group))
             ELSE Null

\* response.headers.get(name); response header names are kept in lower case
HeaderGet(response, name) ==
    IF name \in DOMAIN response.headers THEN Text(response.headers[name]) ELSE Null

\* the blob having been read
responseToDownloadResult(response) ==
    [blob |-> response.body,
     filename |-> extractFilename(HeaderGet(response, "content-disposition")),
     contentType |-> HeaderGet(response, "content-type")]

\* catch handler copied from safeFetch's SyntaxError branch
safeDownloadCatchParse(url, error) == ParseError(error)

\* catch handler of safeDownload and safePostDownload
safeDownloadCatch(url, error) == NetworkError(url, error)

(***************************************************************************)
(* lib/errorWrapper.ts                                                     *)
(***************************************************************************)
\* matchError that formats an ApiError from its message field
matchErrorApiMessage(e) ==
    CASE e.tag = "ApiError" -> "API Error: " \o e.message
      [] e.tag = "NetworkError" -> "Network Error: " \o e.message
      [] e.tag = "ParseError" -> "Parse Error: " \o e.message

\* matchError that passes a NetworkError's message through unprefixed
matchErrorBareNetwork(e) ==
    CASE e.tag = "ApiError" -> "API Error: " \o ToString(e.status) \o " - " \o e.statusText
      [] e.tag = "NetworkError" -> e.message
      [] e.tag = "ParseError" -> "Parse Error: " \o e.message

\* matchError(result.error, {...}): the message for the error's tag
matchError(e) ==
    CASE e.tag = "ApiError" -> "API Error: " \o ToString(e.status) \o " - " \o e.statusText
      [] e.tag = "NetworkError" -> "Network Error: " \o e.message
      [] e.tag = "ParseError" -> "Parse Error: " \o e.message

\* [threw, value]: the Error thrown, or the value returned
errorWrapper(result) ==
    IF isErr(result)
    THEN [threw |-> TRUE,
          value |-> [class |-> "Error", message |-> matchError(result.error)]]
    ELSE [threw |-> FALSE, value |-> result.value]


(***************************************************************************)
(* The request as the host sees it.  A body in a RequestInit is Undefined, *)
(* Text(t) or a FormData instance.                                         *)
(***************************************************************************)
Undefined == [isNull |-> TRUE, text |-> <<>>, form |-> 0]
BodyText(t) == [isNull |-> FALSE, text |-> t, form |-> 0]
FormData(n) == [isNull |-> FALSE, text |-> <<>>, form |-> n]

\* body: JSON.stringify(body)
StringifiedBody(body) ==
    LET s == JSONStringify(body)
    IN  IF s.undef THEN Undefined ELSE BodyText(s.text)

WireMethod(init) == IF "method" \in DOMAIN init THEN init["method"] ELSE "GET"

WireBody(init) == IF "body" \in DOMAIN init THEN init["body"] ELSE Undefined

\* header names are case-insensitive on the wire
LowerName(k) ==
    CASE k = "Content-Type" -> "content-type"
      [] k = "Authorization" -> "authorization"
      [] OTHER -> k

\* new Headers(init.headers).get(name): the values of the keys naming the
\* header, in key order, joined by ", "; "" when there is none
RECURSIVE JoinValues(_, _, _, _)
JoinValues(h, name, i, acc) ==
    IF i > Len(h) THEN acc
    ELSE IF LowerName(h[i][1]) = name
         THEN JoinValues(h, name, i + 1,
                         IF acc = "" THEN h[i][2] ELSE acc \o ", " \o h[i][2])
         ELSE JoinValues(h, name, i + 1, acc)

WireHeader(init, name) == JoinValues(OptionHeaders(init), name, 1, "")

\* fetch throws a TypeError for a GET or HEAD request that has a body
HostAccepts(init) ==
    ~(WireMethod(init) \in {"GET", "HEAD"} /\ ~WireBody(init).isNull)

(***************************************************************************)
(* Inputs                                                                  *)
(***************************************************************************)
MaxCalls == 2

Urls == {"X", "/api/users"}

CallerOptions ==
    { NoOptions,
      [headers |-> <<<<"Authorization", "Bearer t">>>>],
      [headers |-> <<<<"Content-Type", "text/plain">>>>],
      [headers |-> <<<<"content-type", "text/plain">>>>],
      [method |-> "GET", body |-> BodyText(<<"x">>)],
      [method |-> "PUT", credentials |-> "include"] }

BodyValues ==
    { JObj(<<<<<<"n">>, JNum(1)>>>>), JArr(<<JNum(1), JNum(20)>>),
      JUndefined, JCircular, JBigInt(1) }

Forms == { FormData(1) }

StatusLines ==
    { <<200, "OK">>, <<204, "No Content">>, <<299, "">>,
      <<300, "Multiple Choices">>, <<404, "Not Found">>, <<500, "">> }

Bodies ==
    { <<>>,
      <<"n", "o", "t", "-", "j", "s", "o", "n">>,
      <<"{", "\"", "e", "r", "r", "o", "r", "\"", ":", "\"", "n", "o", "t", " ",
        "f", "o", "u", "n", "d", "\"", "}">>,
      <<"[", "1", ",", " ", "2", "0", "]">>,
      <<"0", "1">>,
      <<"{", "\"", "a", "\"", ":", "1", ",", "}">> }

\* bodies the upstream services answer a 200 with
UpstreamBody ==
    [ \* a gold quotation: gold_bar has a buy price and no sell price, gold is absent: {"status":"success","response":{"date":"3 Nov","price":{"gold_bar":{"buy":"74,200.00","sell":"n/a"}}}}
      goldQuote |->
          <<"{", "\"", "s", "t", "a", "t", "u", "s", "\"", ":", "\"", "s", "u",
          "c", "c", "e", "s", "s", "\"", ",", "\"", "r", "e", "s", "p", "o",
          "n", "s", "e", "\"", ":", "{", "\"", "d", "a", "t", "e", "\"", ":",
          "\"", "3", " ", "N", "o", "v", "\"", ",", "\"", "p", "r", "i", "c",
          "e", "\"", ":", "{", "\"", "g", "o", "l", "d", "_", "b", "a", "r",
          "\"", ":", "{", "\"", "b", "u", "y", "\"", ":", "\"", "7", "4", ",",
          "2", "0", "0", ".", "0", "0", "\"", ",", "\"", "s", "e", "l", "l",
          "\"", ":", "\"", "n", "/", "a", "\"", "}", "}", "}", "}">>,
      \* a quotation whose price is a JSON number: {"status":"success","response":{"price":{"gold":{"buy":74200}}}}
      goldNumericQuote |->
          <<"{", "\"", "s", "t", "a", "t", "u", "s", "\"", ":", "\"", "s", "u",
          "c", "c", "e", "s", "s", "\"", ",", "\"", "r", "e", "s", "p", "o",
          "n", "s", "e", "\"", ":", "{", "\"", "p", "r", "i", "c", "e", "\"",
          ":", "{", "\"", "g", "o", "l", "d", "\"", ":", "{", "\"", "b", "u",
          "y", "\"", ":", "7", "4", "2", "0", "0", "}", "}", "}", "}">>,
      \* the feed reports a failure in a 200 response: {"status":"error"}
      goldFailure |->
          <<"{", "\"", "s", "t", "a", "t", "u", "s", "\"", ":", "\"", "e", "r",
          "r", "o", "r", "\"", "}">>,
      \* success without the response member: {"status":"success"}
      goldNoResponse |->
          <<"{", "\"", "s", "t", "a", "t", "u", "s", "\"", ":", "\"", "s", "u",
          "c", "c", "e", "s", "s", "\"", "}">>,
      \* the JSON text null: null
      null |->
          <<"n", "u", "l", "l">>,
      \* a ticker without THB and with a zero EUR price: {"USD":{"last":97000},"EUR":{"last":0}}
      bitcoinTicker |->
          <<"{", "\"", "U", "S", "D", "\"", ":", "{", "\"", "l", "a", "s", "t",
          "\"", ":", "9", "7", "0", "0", "0", "}", ",", "\"", "E", "U", "R",
          "\"", ":", "{", "\"", "l", "a", "s", "t", "\"", ":", "0", "}", "}">> ]

ServicePayloads == { UpstreamBody[k] : k \in DOMAIN UpstreamBody }

NoHeaders == [k \in {} |-> <<>>]

\* attachment; filename="report.csv"
QuotedReportCsv ==
    <<"a", "t", "t", "a", "c", "h", "m", "e", "n", "t", ";", " ",
      "f", "i", "l", "e", "n", "a", "m", "e", "=", "\"", "r", "e", "p",
      "o", "r", "t", ".", "c", "s", "v", "\"">>

\* Content-Disposition values a server can send: the quoted form, an
\* unquoted token, no filename parameter, and a token holding a quote
ContentDispositions ==
    { QuotedReportCsv,
      <<"a", "t", "t", "a", "c", "h", "m", "e", "n", "t", ";", " ",
        "f", "i", "l", "e", "n", "a", "m", "e", "=", "r", ".", "c", "s", "v">>,
      <<"i", "n", "l", "i", "n", "e">>,
      <<"a", "t", "t", "a", "c", "h", "m", "e", "n", "t", ";", " ",
        "f", "i", "l", "e", "n", "a", "m", "e", "=", "O", "'", "B", ".", "c", "s", "v">> }

ResponseHeaders ==
    { NoHeaders }
    \cup
    { [k \in {"content-disposition", "content-type"} |->
          IF k = "content-type" THEN <<"t", "e", "x", "t", "/", "c", "s", "v">>
          ELSE cd] : cd \in ContentDispositions }

\* what fetch can resolve with
Responses ==
    { [status |-> l[1], statusText |-> l[2], headers |-> NoHeaders, body |-> b] :
        l \in StatusLines, b \in Bodies }
    \cup
    { [status |-> 200, statusText |-> "OK", headers |-> h, body |-> <<"a", ",", "b">>] :
        h \in ResponseHeaders }
    \cup
    { [status |-> 200, statusText |-> "OK", headers |-> NoHeaders, body |-> b] :
        b \in ServicePayloads }

\* what fetch can reject with: a network failure, an abort, an abort whose
\* reason is not an Error
TransportErrors ==
    { [class |-> "TypeError", message |-> "Failed to fetch"],
      [class |-> "TypeError", message |-> "Load failed"],
      [class |-> "DOMException", message |-> "The operation was aborted."],
      [class |-> "string", message |-> "timeout"] }

\* what a body read can reject with, the response having arrived
BodyReadErrors ==
    { [class |-> "TypeError", message |-> "network error"],
      [class |-> "DOMException", message |-> "The operation was aborted."] }

\* the User a mutation is given
UserData ==
    { JObj(<<<<<<"n", "a", "m", "e">>, JStr(<<"A", "n", "n">>)>>>>), JCircular }

\* values of Date.now()
Times == {1000, 2000}

\* the twelve Math.random() draws of one fetchETFData call, in hundredths
RandomDraws ==
    { [i \in 1..12 |-> IF i % 2 = 1 THEN d[1] ELSE d[2]] :
        d \in {0, 50, 99} \X {0, 50, 99} }

(***************************************************************************)
(* State                                                                   *)
(***************************************************************************)
VARIABLES
    pc,        \* "idle", "fetching", "reading", "done", "adapted"
    call,      \* the function called and its arguments
    request,   \* the url and RequestInit handed to fetch
    response,  \* the Response fetch resolved with
    settled,   \* how the call's promise settled
    adapter,   \* what errorWrapper did with the Result
    hostError, \* what the host threw at a suspension point of the call
    fetches,   \* HTTP requests issued by the current call
    calls,     \* calls begun so far
    hook,      \* the hook whose queryFn / mutationFn made the call
    service,   \* how the promise of the hook's service settled
    query,     \* how the promise of the queryFn / mutationFn settled
    window,    \* typeof window: "undefined" on a server, "object" in a browser
    made,      \* QueryClient instances constructed so far
    browserQueryClient, \* the module-level binding of query-provider.tsx
    etfQueryClient,     \* the module-level binding of the ETF route
    req,       \* the server request being rendered (0: none, or a browser)
    provided,  \* which client each provider handed down, and for which request
    flights,   \* the activations of the concurrent calls
    pureIn,    \* the function applied last and its argument
    pureOut,   \* what it returned
    cache,     \* the state the caching library keeps for one hook
    invocations, \* calls of the queryFn / mutationFn in the current fetch
    posts,     \* POST requests issued in the current fetch
    delays,    \* the retry delays waited in the current fetch, in ms
    view,      \* what the component rendered last
    cycles,    \* fetches and mutate calls begun so far
    etfTable,  \* the module-level array TOP_DIVIDEND_ETFS
    etfCalls   \* the activations of the fetchETFData calls

\* the state of one fetch-layer call and of the hook that made it
apiVars == <<pc, call, request, response, settled, adapter, hostError, fetches, calls,
             hook, service, query>>
\* the state of the caching clients
clientVars == <<window, made, browserQueryClient, etfQueryClient, req, provided>>
\* the state of the concurrent calls
concVars == <<flights>>
\* the last application of a pure function
pureVars == <<pureIn, pureOut>>
\* the state of the caching library's query or mutation, and of its view
queryVars == <<cache, invocations, posts, delays, view, cycles>>
\* the state of the ETF service
etfVars == <<etfTable, etfCalls>>

vars == <<apiVars, clientVars, concVars, pureVars, queryVars, etfVars>>

NoCall == [fn |-> "none", url |-> "", body |-> JUndefined, options |-> NoOptions]
NoRequest == [url |-> "", init |-> NoOptions]
NoResponse == [status |-> 0, statusText |-> "", headers |-> NoHeaders, body |-> <<>>]
Pending == [kind |-> "pending"]
Returned(r) == [kind |-> "returned", result |-> r]
Rejected(e) == [kind |-> "rejected", reason |-> e]
NotAdapted == [kind |-> "none"]
NoError == [class |-> "none", message |-> ""]

(***************************************************************************)
(* Services.  A service awaits a fetch-layer call and continues with the   *)
(* Result it returned; the continuation either returns a Result or raises, *)
(* which rejects the service's promise.  Property reads follow JavaScript: *)
(* reading a property of null or undefined throws a TypeError, reading a   *)
(* missing property gives undefined.                                       *)
(***************************************************************************)
Nullish(v) == v.kind \in {"null", "undefined"}

\* v.key for a value that is neither null nor undefined
Get(v, key) ==
    IF v.kind = "object" /\ \E p \in 1..Len(v.val) : v.val[p][1] = key
    THEN v.val[CHOOSE p \in 1..Len(v.val) : v.val[p][1] = key][2]
    ELSE JUndefined

\* v?.key
OptGet(v, key) == IF Nullish(v) THEN JUndefined ELSE Get(v, key)

\* ToBoolean(v)
Truthy(v) ==
    CASE Nullish(v) -> FALSE
      [] v.kind = "boolean" -> v.val
      [] v.kind = "number" -> v.val # 0
      [] v.kind = "string" -> v.val # <<>>
      [] OTHER -> TRUE

\* v || d
OrElse(v, d) == IF Truthy(v) THEN v ELSE d

\* the TypeError of reading property `name` of null or undefined
PropertyTypeError(v, name) ==
    [class |-> "TypeError",
     message |-> "Cannot read properties of " \o v.kind \o " (reading '" \o name \o "')"]

\* the property names the services read, as text
Key ==
    [ status |-> <<"s", "t", "a", "t", "u", "s">>,
      response |-> <<"r", "e", "s", "p", "o", "n", "s", "e">>,
      date |-> <<"d", "a", "t", "e">>,
      update_time |->
          <<"u", "p", "d", "a", "t", "e", "_", "t", "i", "m", "e">>,
      price |-> <<"p", "r", "i", "c", "e">>,
      gold_bar |-> <<"g", "o", "l", "d", "_", "b", "a", "r">>,
      gold |-> <<"g", "o", "l", "d">>,
      buy |-> <<"b", "u", "y">>,
      sell |-> <<"s", "e", "l", "l">>,
      change |-> <<"c", "h", "a", "n", "g", "e">>,
      compare_previous |->
          <<"c", "o", "m", "p", "a", "r", "e", "_", "p", "r", "e", "v", "i", "o", "u", "s">>,
      compare_yesterday |->
          <<"c", "o", "m", "p", "a", "r", "e", "_", "y", "e", "s", "t", "e", "r", "d", "a", "y">>,
      last |-> <<"l", "a", "s", "t">>,
      USD |-> <<"U", "S", "D">>,
      EUR |-> <<"E", "U", "R">>,
      THB |-> <<"T", "H", "B">> ]

Success == <<"s", "u", "c", "c", "e", "s", "s">>

(***************************************************************************)
(* gold.service.ts.  A price is a decimal number [neg, int, frac]: sign,   *)
(* integer part, and the fraction's digits without trailing zeros.         *)
(***************************************************************************)
GOLD_API == "https://api.chnwt.dev/thai-gold-api/latest"

Price(neg, int, frac) == [kind |-> "number", neg |-> neg, val |-> int, frac |-> frac]
Zero == Price(FALSE, 0, <<>>)

\* priceStr.replace(/,/g, "")
RemoveCommas(t) == SelectSeq(t, LAMBDA c : c # ",")

RECURSIVE DigitsEnd(_, _)
DigitsEnd(t, i) == IF i <= Len(t) /\ IsDigit(t[i]) THEN DigitsEnd(t, i + 1) ELSE i

RECURSIVE DigitsValue(_, _, _)
DigitsValue(t, i, j) ==
    IF j < i THEN 0 ELSE DigitsValue(t, i, j - 1) * 10 + DigitVal(t[j])

RECURSIVE DropTrailingZeros(_)
DropTrailingZeros(t) ==
    IF t # <<>> /\ t[Len(t)] = "0" THEN DropTrailingZeros(SubSeq(t, 1, Len(t) - 1))
    ELSE t

\* parseFloat(t) for decimal literals without exponent: the longest prefix
\* [blanks] [sign] digits [. digits]; NaN when that prefix has no digit
parseFloat(t) ==
    LET s == SkipWs(t, 1)
        signed == s <= Len(t) /\ t[s] \in {"+", "-"}
        neg == signed /\ t[s] = "-"
        i == IF signed THEN s + 1 ELSE s
        j == DigitsEnd(t, i)
        dot == j <= Len(t) /\ t[j] = "."
        k == IF dot THEN DigitsEnd(t, j + 1) ELSE j
        frac == IF dot THEN DropTrailingZeros(SubSeq(t, j + 1, k - 1)) ELSE <<>>
    IN  IF j = i /\ (~dot \/ k = j + 1)
        THEN [nan |-> TRUE, num |-> Zero]
        ELSE [nan |-> FALSE, num |-> Price(neg, DigitsValue(t, i, j - 1), frac)]

\* parsePrice without the `|| 0` fallback: NaN is returned as it is
parsePriceNoFallback(priceStr) ==
    IF ~Truthy(priceStr) THEN [threw |-> FALSE, value |-> Zero]
    ELSE IF priceStr.kind # "string" THEN [threw |-> TRUE, value |-> Zero]
    ELSE LET f == parseFloat(RemoveCommas(priceStr.val))
         IN  [threw |-> FALSE,
              value |-> IF f.nan THEN [kind |-> "NaN"] ELSE f.num]

\* parsePrice(priceStr): [threw, value]; a truthy value that is not a string
\* has no replace method
parsePrice(priceStr) ==
    IF ~Truthy(priceStr) THEN [threw |-> FALSE, value |-> Zero]
    ELSE IF priceStr.kind # "string" THEN [threw |-> TRUE, value |-> Zero]
    ELSE LET f == parseFloat(RemoveCommas(priceStr.val))
         IN  [threw |-> FALSE,
              value |-> IF f.nan \/ (f.num.val = 0 /\ f.num.frac = <<>>) THEN Zero
                        ELSE f.num]

ReplaceTypeError ==
    [class |-> "TypeError", message |-> "priceStr.replace is not a function"]

\* the ApiError fetchGoldPrice builds for a payload whose status is not "success"
GoldStatusError == ApiError(400, "Bad Request", GOLD_API)

\* fetchGoldPrice that goes on to read the prices whatever the status is
fetchGoldPriceThenUnchecked(result, now) ==
    IF isErr(result) THEN Returned(result)
    ELSE LET data == result.value
             goldData == Get(data, Key.response)
             price == Get(goldData, Key.price)
             barBuy == parsePrice(OptGet(OptGet(price, Key.gold_bar), Key.buy))
             barSell == parsePrice(OptGet(OptGet(price, Key.gold_bar), Key.sell))
             goldBuy == parsePrice(OptGet(OptGet(price, Key.gold), Key.buy))
             goldSell == parsePrice(OptGet(OptGet(price, Key.gold), Key.sell))
         IN  IF Nullish(data) THEN Rejected(PropertyTypeError(data, "status"))
             ELSE IF Nullish(goldData)
             THEN Rejected(PropertyTypeError(goldData, "date"))
             ELSE IF barBuy.threw \/ barSell.threw \/ goldBuy.threw \/ goldSell.threw
             THEN Rejected(ReplaceTypeError)
             ELSE Returned(Ok(
                 [time |-> now,
                  date |-> OrElse(Get(goldData, Key.date), JStr(<<>>)),
                  updateTime |-> OrElse(Get(goldData, Key.update_time), JStr(<<>>)),
                  prices |-> [goldBar |-> [buy |-> barBuy.value, sell |-> barSell.value],
                              goldOrnament |-> [buy |-> goldBuy.value,
                                                sell |-> goldSell.value]],
                  change |->
                      [comparePrevious |->
                          OrElse(OptGet(OptGet(price, Key.change), Key.compare_previous),
                                 JStr(<<>>)),
                       compareYesterday |->
                          OrElse(OptGet(OptGet(price, Key.change), Key.compare_yesterday),
                                 JStr(<<>>))]]))

\* fetchGoldPrice after `await safeFetch(GOLD_API)` returned result
fetchGoldPriceThen(result, now) ==
    IF isErr(result) THEN Returned(result)
    ELSE LET data == result.value
             goldData == Get(data, Key.response)
             price == Get(goldData, Key.price)
             barBuy == parsePrice(OptGet(OptGet(price, Key.gold_bar), Key.buy))
             barSell == parsePrice(OptGet(OptGet(price, Key.gold_bar), Key.sell))
             goldBuy == parsePrice(OptGet(OptGet(price, Key.gold), Key.buy))
             goldSell == parsePrice(OptGet(OptGet(price, Key.gold), Key.sell))
         IN  IF Nullish(data) THEN Rejected(PropertyTypeError(data, "status"))
             ELSE IF Get(data, Key.status) # JStr(Success)
             THEN Returned(Err(GoldStatusError))
             ELSE IF Nullish(goldData)
             THEN Rejected(PropertyTypeError(goldData, "date"))
             ELSE IF barBuy.threw \/ barSell.threw \/ goldBuy.threw \/ goldSell.threw
             THEN Rejected(ReplaceTypeError)
             ELSE Returned(Ok(
                 [time |-> now,
                  date |-> OrElse(Get(goldData, Key.date), JStr(<<>>)),
                  updateTime |-> OrElse(Get(goldData, Key.update_time), JStr(<<>>)),
                  prices |-> [goldBar |-> [buy |-> barBuy.value, sell |-> barSell.value],
                              goldOrnament |-> [buy |-> goldBuy.value,
                                                sell |-> goldSell.value]],
                  change |->
                      [comparePrevious |->
                          OrElse(OptGet(OptGet(price, Key.change), Key.compare_previous),
                                 JStr(<<>>)),
                       compareYesterday |->
                          OrElse(OptGet(OptGet(price, Key.change), Key.compare_yesterday),
                                 JStr(<<>>))]]))

(***************************************************************************)
(* bitcoin.service.ts                                                      *)
(***************************************************************************)
BITCOIN_API == "https://blockchain.info/ticker"

\* fetchBitcoinPrice after `await safeFetch(BITCOIN_API)` returned result
\* (the currency signs of EUR and THB are written by their codes)
fetchBitcoinPriceThen(result, now) ==
    IF isErr(result) THEN Returned(result)
    ELSE LET data == result.value
             last(k) == OrElse(OptGet(Get(data, k), Key.last), JNum(0))
         IN  IF Nullish(data) THEN Rejected(PropertyTypeError(data, "USD"))
             ELSE Returned(Ok(
                 [time |-> now,
                  prices |-> [USD |-> [last |-> last(Key.USD), symbol |-> "$"],
                              EUR |-> [last |-> last(Key.EUR), symbol |-> "EUR"],
                              THB |-> [last |-> last(Key.THB), symbol |-> "THB"]]]))

(***************************************************************************)
(* user.service.ts                                                         *)
(***************************************************************************)
API_BASE_URL == "https://jsonplaceholder.typicode.com"
UsersUrl == API_BASE_URL \o "/users"

(***************************************************************************)
(* etf.service.ts.  Prices and yields are kept in hundredths (82.45 is     *)
(* 8245); Math.random() is a draw in hundredths of [0, 1).  A fluctuated   *)
(* price is the exact product price * (1 + (r - 0.5) * 0.02) as a numerator *)
(* over 500000, a fluctuated yield that of yield * (1 + (r - 0.5) * 0.01)  *)
(* over 1000000.                                                           *)
(***************************************************************************)
TOP_DIVIDEND_ETFS ==
    << [symbol |-> "SCHD", price |-> 8245, dividendYield |-> 352],
       [symbol |-> "VYM", price |-> 11832, dividendYield |-> 291],
       [symbol |-> "HDV", price |-> 10876, dividendYield |-> 378],
       [symbol |-> "JEPI", price |-> 5689, dividendYield |-> 742],
       [symbol |-> "DIVO", price |-> 3824, dividendYield |-> 468],
       [symbol |-> "SPYD", price |-> 4218, dividendYield |-> 421] >>

\* the two Math.random() draws taken for the i-th table row
FluctuatedEtf(etf, priceDraw, yieldDraw) ==
    [symbol |-> etf.symbol,
     price |-> etf.price * (4950 + priceDraw),
     dividendYield |-> etf.dividendYield * (9950 + yieldDraw)]

\* fetchETFData(): the try block cannot raise, so the catch handler that
\* builds NetworkError{url: "etf-data"} never runs
fetchETFData(draws) ==
    Returned(Ok([i \in 1..Len(TOP_DIVIDEND_ETFS) |->
                    FluctuatedEtf(TOP_DIVIDEND_ETFS[i], draws[2 * i - 1], draws[2 * i])]))

(***************************************************************************)
(* hooks: the queryFn / mutationFn handed to the caching library.  Each    *)
(* awaits its service and throws new Error(result.error.message) for a     *)
(* failed Result.                                                          *)
(***************************************************************************)
NoHook == [name |-> "none", data |-> JUndefined]

\* the service of the hook after the fetch-layer call it awaits has settled
ServiceThen(name, layer, now) ==
    IF layer.kind = "rejected" THEN Rejected(layer.reason)
    ELSE CASE name = "useGoldPrice" -> fetchGoldPriceThen(layer.result, now)
           [] name = "useBitcoinPrice" -> fetchBitcoinPriceThen(layer.result, now)
           [] OTHER -> Returned(layer.result)

\* a queryFn that hands the failed Result to errorWrapper
QueryFnThroughAdapter(served) ==
    IF served.kind = "rejected" THEN Rejected(served.reason)
    ELSE IF isErr(served.result)
    THEN Rejected([class |-> "Error", message |-> matchError(served.result.error)])
    ELSE Returned(served.result.value)

\* const result = await service();
\* if (result.isErr()) throw new Error(result.error.message); return result.value;
QueryFn(served) ==
    IF served.kind = "rejected" THEN Rejected(served.reason)
    ELSE IF isErr(served.result)
    THEN Rejected([class |-> "Error", message |-> served.result.error.message])
    ELSE Returned(served.result.value)

MaxFlights == 2

Flights == 1..MaxFlights

NoReply == [kind |-> "none"]

NoFlight ==
    [pc |-> "idle", fn |-> "none", url |-> "", fetches |-> 0,
     reply |-> NoReply, read |-> NoReply, result |-> Pending]

\* nothing applied yet
NoInput == [fn |-> "none", arg |-> JUndefined]

\* a hook that is not mounted: no query, nothing rendered
NoQuery ==
    [hook |-> "none", status |-> "pending", fetchStatus |-> "idle",
     data |-> JUndefined, error |-> NoError, failureCount |-> 0, variables |-> JUndefined]
NoView == [component |-> "none", view |-> "none"]

\* a fetchETFData call that has not begun
NoEtfCall == [pc |-> "idle", value |-> <<>>]

Init ==
    /\ pc = "idle"
    /\ call = NoCall
    /\ request = NoRequest
    /\ response = NoResponse
    /\ settled = Pending
    /\ adapter = NotAdapted
    /\ hostError = NoError
    /\ fetches = 0
    /\ calls = 0
    /\ hook = NoHook
    /\ service = Pending
    /\ query = Pending
    /\ window = "unset"
    /\ made = 0
    /\ browserQueryClient = 0
    /\ etfQueryClient = 0
    /\ req = 0
    /\ provided = {}
    /\ flights = [i \in Flights |-> NoFlight]
    /\ pureIn = NoInput
    /\ pureOut = JUndefined
    /\ cache = NoQuery
    /\ invocations = 0
    /\ posts = 0
    /\ delays = <<>>
    /\ view = NoView
    /\ cycles = 0
    /\ etfTable = TOP_DIVIDEND_ETFS
    /\ etfCalls = [i \in Flights |-> NoEtfCall]

\* which of the three bodies the called function continues with
Family(fn) ==
    CASE fn = "safeRequest" -> "response"
      [] fn \in {"safeDownload", "safePostDownload"} -> "download"
      [] OTHER -> "json"


(***************************************************************************)
(* Calls.  Each wrapper runs synchronously up to `await fetch(url, init)`  *)
(* inside safeRequest; an exception before that point rejects the promise  *)
(* of the async function that raised it.                                   *)
(***************************************************************************)
\* await fetch(url, options) in safeRequest
Issue(fn, url, body, options, init) ==
    /\ pc = "idle"
    /\ calls < MaxCalls
    /\ pc' = "fetching"
    /\ call' = [fn |-> fn, url |-> url, body |-> body, options |-> options]
    /\ request' = [url |-> url, init |-> init]
    /\ fetches' = fetches + 1
    /\ calls' = calls + 1
    /\ UNCHANGED <<response, settled, adapter, hostError, service, query>>
    /\ UNCHANGED <<clientVars, concVars, pureVars, queryVars, etfVars>>

\* an exception raised while the wrapper builds its arguments
Raise(fn, url, body, options, error) ==
    /\ pc = "idle"
    /\ calls < MaxCalls
    /\ pc' = "done"
    /\ call' = [fn |-> fn, url |-> url, body |-> body, options |-> options]
    /\ settled' = Rejected(error)
    /\ calls' = calls + 1
    /\ UNCHANGED <<request, response, adapter, hostError, fetches, service, query>>
    /\ UNCHANGED <<clientVars, concVars, pureVars, queryVars, etfVars>>

\* the wrapper's fields written first and the caller's options spread over them
JsonInitOptionsLast(method, body, options) ==
    Spread([method |-> method,
            headers |-> JsonHeaders(options),
            body |-> StringifiedBody(body)], options)

\* { ...options, method, headers: { "Content-Type": ..., ...options?.headers },
\*   body: JSON.stringify(body) }
JsonInit(method, body, options) ==
    Spread(options, [method |-> method,
                     headers |-> JsonHeaders(options),
                     body |-> StringifiedBody(body)])

\* safePost, safePut, safePatch, safePostDownload up to the HTTP call
JsonCall(fn, method, url, body, options) ==
    IF JSONStringify(body).threw
    THEN Raise(fn, url, body, options, StringifyTypeError(body))
    ELSE Issue(fn, url, body, options, JsonInit(method, body, options))

safeRequest(url, options) ==
    /\ pc = "idle"
    /\ UNCHANGED hook
    /\ Issue("safeRequest", url, JUndefined, options, options)

safeFetch(url, options) ==
    /\ pc = "idle"
    /\ UNCHANGED hook
    /\ Issue("safeFetch", url, JUndefined, options, options)

safePost(url, body, options) ==
    /\ pc = "idle"
    /\ UNCHANGED hook
    /\ JsonCall("safePost", "POST", url, body, options)

safePut(url, body, options) ==
    /\ pc = "idle"
    /\ UNCHANGED hook
    /\ JsonCall("safePut", "PUT", url, body, options)

safePatch(url, body, options) ==
    /\ pc = "idle"
    /\ UNCHANGED hook
    /\ JsonCall("safePatch", "PATCH", url, body, options)

safeDelete(url, options) ==
    /\ pc = "idle"
    /\ UNCHANGED hook
    /\ Issue("safeDelete", url, JUndefined, options,
             Spread(options, [method |-> "DELETE"]))

\* an upload that sets the JSON content type as the JSON wrappers do
safePostUploadJsonHeaders(url, formData, options) ==
    /\ pc = "idle"
    /\ UNCHANGED hook
    /\ Issue("safePostUpload", url, formData, options,
             Spread(options, [method |-> "POST", headers |-> JsonHeaders(options),
                              body |-> formData]))

safePostUpload(url, formData, options) ==
    /\ pc = "idle"
    /\ UNCHANGED hook
    /\ Issue("safePostUpload", url, formData, options,
             Spread(options, [method |-> "POST", body |-> formData]))

safeDownload(url, options) ==
    /\ pc = "idle"
    /\ UNCHANGED hook
    /\ Issue("safeDownload", url, JUndefined, options, options)

safePostDownload(url, body, options) ==
    /\ pc = "idle"
    /\ UNCHANGED hook
    /\ JsonCall("safePostDownload", "POST", url, body, options)

(***************************************************************************)
(* Continuations at the two suspension points                              *)
(***************************************************************************)
\* safeFetch that starts reading the body of every response that arrived,
\* before looking at the Result of safeRequest
AfterRequestReadFirst(responseResult) ==
    IF Family(call.fn) = "response"
    THEN /\ settled' = Returned(responseResult)
         /\ pc' = "done"
    ELSE IF isErr(responseResult) /\ responseResult.error.tag # "ApiError"
    THEN /\ settled' = Returned(PropagateErr(responseResult))
         /\ pc' = "done"
    ELSE /\ settled' = settled
         /\ pc' = "reading"

\* what the caller of safeRequest does with its Result: safeRequest returns
\* it, the others return its error or go on to read the body
AfterRequest(responseResult) ==
    IF Family(call.fn) = "response"
    THEN /\ settled' = Returned(responseResult)
         /\ pc' = "done"
    ELSE IF isErr(responseResult)
    THEN /\ settled' = Returned(PropagateErr(responseResult))
         /\ pc' = "done"
    ELSE /\ settled' = settled
         /\ pc' = "reading"

FetchResolves(resp) ==
    /\ pc = "fetching"
    /\ HostAccepts(request.init)
    /\ response' = resp
    /\ AfterRequest(safeRequestResolved(request.url, resp))
    /\ UNCHANGED <<call, request, adapter, hostError, fetches, calls,
                   hook, service, query>>
    /\ UNCHANGED <<clientVars, concVars, pureVars, queryVars, etfVars>>

\* a rejected fetch issued again by the layer
FetchRejectsRetry(error) ==
    /\ pc = "fetching"
    /\ fetches < 3
    /\ fetches' = fetches + 1
    /\ UNCHANGED <<pc, call, request, response, settled, adapter, hostError, calls,
                   hook, service, query>>
    /\ UNCHANGED <<clientVars, concVars, pureVars, queryVars, etfVars>>

FetchRejects(error) ==
    /\ pc = "fetching"
    /\ hostError' = error
    /\ AfterRequest(safeRequestRejected(request.url, error))
    /\ UNCHANGED <<call, request, response, adapter, fetches, calls,
                   hook, service, query>>
    /\ UNCHANGED <<clientVars, concVars, pureVars, queryVars, etfVars>>

\* response.json() or response.blob() completes
BodyResolves ==
    /\ pc = "reading"
    /\ settled' = Returned(IF Family(call.fn) = "json"
                           THEN safeFetchDecoded(call.url, response)
                           ELSE Ok(responseToDownloadResult(response)))
    /\ pc' = "done"
    /\ UNCHANGED <<call, request, response, adapter, hostError, fetches, calls,
                   hook, service, query>>
    /\ UNCHANGED <<clientVars, concVars, pureVars, queryVars, etfVars>>

\* the body stream fails or is aborted while it is read
BodyRejects(error) ==
    /\ pc = "reading"
    /\ hostError' = error
    /\ settled' = Returned(IF Family(call.fn) = "json"
                           THEN safeFetchReadFailed(call.url, error)
                           ELSE Err(safeDownloadCatch(call.url, error)))
    /\ pc' = "done"
    /\ UNCHANGED <<call, request, response, adapter, fetches, calls,
                   hook, service, query>>
    /\ UNCHANGED <<clientVars, concVars, pureVars, queryVars, etfVars>>

(***************************************************************************)
(* Hooks.  The caching library invokes a hook's queryFn or mutationFn; the *)
(* function calls its service, which runs up to the HTTP call of the       *)
(* fetch-layer function it awaits.                                         *)
(***************************************************************************)
useUsers ==
    /\ pc = "idle"
    /\ hook' = [name |-> "useUsers", data |-> JUndefined]
    /\ Issue("safeFetch", UsersUrl, JUndefined, NoOptions, NoOptions)

useCreateUser(data) ==
    /\ pc = "idle"
    /\ hook' = [name |-> "useCreateUser", data |-> data]
    /\ JsonCall("safePost", "POST", UsersUrl, data, NoOptions)

useBitcoinPrice ==
    /\ pc = "idle"
    /\ hook' = [name |-> "useBitcoinPrice", data |-> JUndefined]
    /\ Issue("safeFetch", BITCOIN_API, JUndefined, NoOptions, NoOptions)

useGoldPrice ==
    /\ pc = "idle"
    /\ hook' = [name |-> "useGoldPrice", data |-> JUndefined]
    /\ Issue("safeFetch", GOLD_API, JUndefined, NoOptions, NoOptions)

\* fetchETFData issues no request: the service returns after its timer
useETFData(draws) ==
    /\ pc = "idle"
    /\ calls < MaxCalls
    /\ hook' = [name |-> "useETFData", data |-> JUndefined]
    /\ service' = fetchETFData(draws)
    /\ pc' = "served"
    /\ calls' = calls + 1
    /\ UNCHANGED <<call, request, response, settled, adapter, hostError, fetches, query>>
    /\ UNCHANGED <<clientVars, concVars, pureVars, queryVars, etfVars>>

\* the service resumes after its await and returns (or raises)
ServiceReturns(now) ==
    /\ pc = "done"
    /\ hook # NoHook
    /\ service' = ServiceThen(hook.name, settled, now)
    /\ pc' = "served"
    /\ UNCHANGED <<call, request, response, settled, adapter, hostError, fetches,
                   calls, hook, query>>
    /\ UNCHANGED <<clientVars, concVars, pureVars, queryVars, etfVars>>

\* the queryFn / mutationFn resumes after `await service()` and settles
QueryFnSettles ==
    /\ pc = "served"
    /\ query' = QueryFn(service)
    /\ pc' = "hooked"
    /\ UNCHANGED <<call, request, response, settled, adapter, hostError, fetches,
                   calls, hook, service>>
    /\ UNCHANGED <<clientVars, concVars, pureVars, queryVars, etfVars>>

\* the caller hands the Result to errorWrapper
Adapt ==
    /\ pc = "done"
    /\ hook = NoHook
    /\ settled.kind = "returned"
    /\ adapter' = [kind |-> "ran", out |-> errorWrapper(settled.result)]
    /\ pc' = "adapted"
    /\ UNCHANGED <<call, request, response, settled, hostError, fetches, calls,
                   hook, service, query>>
    /\ UNCHANGED <<clientVars, concVars, pureVars, queryVars, etfVars>>

\* the call is over; nothing of it is kept
Finish ==
    /\ \/ pc \in {"done", "adapted"} /\ hook = NoHook
       \/ pc = "hooked"
    /\ pc' = "idle"
    /\ call' = NoCall
    /\ request' = NoRequest
    /\ response' = NoResponse
    /\ settled' = Pending
    /\ adapter' = NotAdapted
    /\ hostError' = NoError
    /\ fetches' = 0
    /\ hook' = NoHook
    /\ service' = Pending
    /\ query' = Pending
    /\ UNCHANGED calls
    /\ UNCHANGED <<clientVars, concVars, pureVars, queryVars, etfVars>>

Next ==
    \/ \E url \in Urls, options \in CallerOptions : safeRequest(url, options)
    \/ \E url \in Urls, options \in CallerOptions : safeFetch(url, options)
    \/ \E url \in Urls, body \in BodyValues, options \in CallerOptions :
          safePost(url, body, options)
    \/ \E url \in Urls, body \in BodyValues, options \in CallerOptions :
          safePut(url, body, options)
    \/ \E url \in Urls, body \in BodyValues, options \in CallerOptions :
          safePatch(url, body, options)
    \/ \E url \in Urls, options \in CallerOptions : safeDelete(url, options)
    \/ \E url \in Urls, formData \in Forms, options \in CallerOptions :
          safePostUpload(url, formData, options)
    \/ \E url \in Urls, options \in CallerOptions : safeDownload(url, options)
    \/ \E url \in Urls, body \in BodyValues, options \in CallerOptions :
          safePostDownload(url, body, options)
    \/ \E resp \in Responses : FetchResolves(resp)
    \/ \E error \in TransportErrors : FetchRejects(error)
    \/ BodyResolves
    \/ \E error \in BodyReadErrors : BodyRejects(error)
    \/ useUsers
    \/ \E data \in UserData : useCreateUser(data)
    \/ useBitcoinPrice
    \/ useGoldPrice
    \/ \E draws \in RandomDraws : useETFData(draws)
    \/ \E now \in Times : ServiceReturns(now)
    \/ QueryFnSettles
    \/ Adapt
    \/ Finish

Spec == Init /\ [][Next]_vars

(***************************************************************************)
(* The caching client (providers/query-provider.tsx, routes/etf.tsx).  A   *)
(* QueryClient instance is its construction number; 0 is undefined.  The   *)
(* process is a server (typeof window === "undefined") that renders one    *)
(* request after another, or a browser session.                            *)
(***************************************************************************)
MaxRequests == 3
MaxClients == 5

\* makeQueryClient() / new QueryClient(...): the next instance
NewClient == made + 1

\* the modules are evaluated: `let browserQueryClient = undefined` and
\* `const queryClient = new QueryClient(...)` of the ETF route
LoadModules(w) ==
    /\ window = "unset"
    /\ window' = w
    /\ browserQueryClient' = 0
    /\ etfQueryClient' = NewClient
    /\ made' = NewClient
    /\ UNCHANGED <<req, provided>>
    /\ UNCHANGED <<apiVars, concVars, pureVars, queryVars, etfVars>>

\* the server starts rendering the next request
BeginRequest ==
    /\ window = "undefined"
    /\ req < MaxRequests
    /\ req' = req + 1
    /\ UNCHANGED <<window, browserQueryClient, etfQueryClient, made, provided>>
    /\ UNCHANGED <<apiVars, concVars, pureVars, queryVars, etfVars>>

\* getQueryClient(): the client returned and the module state it leaves
getQueryClient ==
    IF window = "undefined"
    THEN [client |-> NewClient, browserQueryClient |-> browserQueryClient,
          made |-> NewClient]
    ELSE IF browserQueryClient = 0
    THEN [client |-> NewClient, browserQueryClient |-> NewClient, made |-> NewClient]
    ELSE [client |-> browserQueryClient, browserQueryClient |-> browserQueryClient,
          made |-> made]

\* QueryProvider mounts: useState(() => getQueryClient()) runs its
\* initialiser and the client is handed to QueryClientProvider
QueryProvider ==
    /\ window \in {"undefined", "object"}
    /\ window = "undefined" => req > 0
    /\ made < MaxClients
    /\ browserQueryClient' = getQueryClient.browserQueryClient
    /\ made' = getQueryClient.made
    /\ provided' = provided \cup {[scope |-> req, by |-> "QueryProvider",
                                   client |-> getQueryClient.client]}
    /\ UNCHANGED <<window, etfQueryClient, req>>
    /\ UNCHANGED <<apiVars, concVars, pureVars, queryVars, etfVars>>

\* the ETF route renders: <QueryClientProvider client={queryClient}>
ETF ==
    /\ window \in {"undefined", "object"}
    /\ window = "undefined" => req > 0
    /\ provided' = provided \cup {[scope |-> req, by |-> "ETF",
                                   client |-> etfQueryClient]}
    /\ UNCHANGED <<window, browserQueryClient, etfQueryClient, made, req>>
    /\ UNCHANGED <<apiVars, concVars, pureVars, queryVars, etfVars>>

NextClient ==
    \/ \E w \in {"undefined", "object"} : LoadModules(w)
    \/ BeginRequest
    \/ QueryProvider
    \/ ETF

SpecClient == Init /\ [][NextClient]_vars

(***************************************************************************)
(* Pure functions applied to arguments of their whole domain: the retry    *)
(* delay of the caching client (query-provider.tsx) and parsePrice         *)
(* (gold.service.ts).                                                      *)
(***************************************************************************)
MaxAttemptIndex == 20
MaxPriceLen == 3

\* the delay without the Math.min ceiling
retryDelayUncapped(attemptIndex) == 1000 * 2^attemptIndex

\* retryDelay: (attemptIndex) => Math.min(1000 * 2 ** attemptIndex, 30000)
retryDelay(attemptIndex) ==
    IF 1000 * 2^attemptIndex <= 30000 THEN 1000 * 2^attemptIndex ELSE 30000

\* arguments of parsePrice: undefined, null, every text of up to MaxPriceLen
\* characters over digits, comma, point, blank-free letters, and some
\* quotations as the feed writes them
PriceInputs ==
    { JUndefined, JNull }
    \cup { JStr(t) : t \in UNION { [1..n -> {"7", "0", ",", ".", "a"}] :
                                     n \in 0..MaxPriceLen } }
    \cup { JStr(<<"7", "4", ",", "2", "0", "0", ".", "0", "0">>),
           JStr(<<"1", ",", "2", "7", "4", ",", "2", "0", "0", ".", "5", "0">>),
           JStr(<<"n", "/", "a">>),
           JStr(<<" ", "7", "0">>),
           JStr(<<"-", "7", ".", "5">>) }

CallRetryDelay(attemptIndex) ==
    /\ pureIn' = [fn |-> "retryDelay", arg |-> attemptIndex]
    /\ pureOut' = retryDelay(attemptIndex)
    /\ UNCHANGED <<apiVars, clientVars, concVars, queryVars, etfVars>>

CallParsePrice(priceStr) ==
    /\ pureIn' = [fn |-> "parsePrice", arg |-> priceStr]
    /\ pureOut' = parsePrice(priceStr)
    /\ UNCHANGED <<apiVars, clientVars, concVars, queryVars, etfVars>>

NextPure ==
    \/ \E attemptIndex \in 0..MaxAttemptIndex : CallRetryDelay(attemptIndex)
    \/ \E priceStr \in PriceInputs : CallParsePrice(priceStr)

SpecPure == Init /\ [][NextPure]_vars

(***************************************************************************)
(* Queries and mutations under the client's default options.  The query    *)
(* library is the environment: a fetch starts with failure count 0; a      *)
(* query function that rejects is invoked again after                      *)
(* retryDelay(failureCount) while failureCount < retry, and otherwise the  *)
(* query settles in error keeping the data it holds; a fetch that starts   *)
(* without data resets status to pending and error to null; nothing is     *)
(* fetched while rendering on the server.  A component is rendered again   *)
(* after every change of the query it observes.                            *)
(***************************************************************************)
MaxCycles == 1

Components == {"BitcoinFeed", "GoldFeed", "UserList"}

\* the hook each component calls
HookOf(component) ==
    CASE component = "BitcoinFeed" -> "useBitcoinPrice"
      [] component = "GoldFeed" -> "useGoldPrice"
      [] component = "UserList" -> "useUsers"

\* queries: { retry: 3 } of makeQueryClient (and of the hooks that repeat
\* it); mutations: { retry: 0 }
RetryOf(hookName) == IF hookName = "useCreateUser" THEN 0 ELSE 3

\* values a query function resolves with
FetchedData(hookName) ==
    IF hookName = "useUsers"
    THEN {JArr(<<JObj(<<<<<<"n", "a", "m", "e">>, JStr(<<"A", "n", "n">>)>>>>)>>),
          JArr(<<>>), JNull}
    ELSE {JObj(<<<<Key.price, JNum(1)>>>>), JObj(<<<<Key.price, JNum(2)>>>>)}

\* new Error(result.error.message) thrown by a query or mutation function
ThrownErrors ==
    {[class |-> "Error", message |-> "Network request failed"],
     [class |-> "Error", message |-> "API request failed"]}

isLoading(result) == result.fetchStatus = "fetching" /\ result.status = "pending"
isError(result) == result.status = "error"

BitcoinFeed(result) ==
    IF isLoading(result) THEN "LoadingSkeleton"
    ELSE IF result.error # NoError THEN "ErrorDisplay"
    ELSE IF ~Truthy(result.data) THEN "LoadingSkeleton"
    ELSE "data"

\* a feed that looks at the data it holds before the error
GoldFeedDataFirst(result) ==
    IF isLoading(result) THEN "LoadingSkeleton"
    ELSE IF Truthy(result.data) THEN "data"
    ELSE IF result.error # NoError THEN "ErrorDisplay"
    ELSE "LoadingSkeleton"

GoldFeed(result) ==
    IF isLoading(result) THEN "LoadingSkeleton"
    ELSE IF result.error # NoError THEN "ErrorDisplay"
    ELSE IF ~Truthy(result.data) THEN "LoadingSkeleton"
    ELSE "data"

\* if (!users || users.length === 0) return <EmptyState />
UserList(result) ==
    IF isLoading(result) THEN "LoadingSkeleton"
    ELSE IF isError(result) THEN "ErrorDisplay"
    ELSE IF ~Truthy(result.data) \/ result.data.val = <<>> THEN "EmptyState"
    ELSE "data"

Render(component, result) ==
    CASE component = "BitcoinFeed" ->
             [component |-> component, view |-> BitcoinFeed(result)]
      [] component = "GoldFeed" ->
             [component |-> component, view |-> GoldFeed(result)]
      [] component = "UserList" ->
             [component |-> component, view |-> UserList(result)]
      [] OTHER -> NoView

\* the query or mutation function is running
InFlight == cache.fetchStatus = "fetching" /\ invocations = Len(delays) + 1
\* the retry timer is running
Waiting == cache.fetchStatus = "fetching" /\ invocations = Len(delays)

\* a component is rendered for the first time; in the browser its query
\* starts to fetch
Mount(component, onServer) ==
    /\ cache.hook = "none"
    /\ cache' = [NoQuery EXCEPT !.hook = HookOf(component),
                                 !.fetchStatus = IF onServer THEN "idle" ELSE "fetching"]
    /\ invocations' = IF onServer THEN 0 ELSE 1
    /\ view' = Render(component, cache')
    /\ UNCHANGED <<posts, delays, cycles>>
    /\ UNCHANGED <<apiVars, clientVars, concVars, pureVars, etfVars>>

\* mutate(data) of useCreateUser: the mutation function calls createUser,
\* which is safePost: the request is issued once the body is stringified
Mutate(data) ==
    /\ cache.hook = "none"
    /\ cache' = [NoQuery EXCEPT !.hook = "useCreateUser", !.fetchStatus = "fetching",
                                 !.variables = data]
    /\ invocations' = 1
    /\ posts' = IF JSONStringify(data).threw THEN 0 ELSE 1
    /\ UNCHANGED <<delays, view, cycles>>
    /\ UNCHANGED <<apiVars, clientVars, concVars, pureVars, etfVars>>

FnResolves(value) ==
    /\ InFlight
    /\ IF cache.hook = "useCreateUser"
       THEN ~JSONStringify(cache.variables).threw /\ value = cache.variables
       ELSE value \in FetchedData(cache.hook)
    /\ cache' = [cache EXCEPT !.status = "success", !.fetchStatus = "idle",
                              !.data = value, !.error = NoError, !.failureCount = 0]
    /\ view' = Render(view.component, cache')
    /\ UNCHANGED <<invocations, posts, delays, cycles>>
    /\ UNCHANGED <<apiVars, clientVars, concVars, pureVars, etfVars>>

FnRejects(err) ==
    /\ InFlight
    /\ IF cache.hook = "useCreateUser" /\ JSONStringify(cache.variables).threw
       THEN err = StringifyTypeError(cache.variables)
       ELSE err \in ThrownErrors
    /\ IF cache.failureCount < RetryOf(cache.hook)
       THEN /\ cache' = [cache EXCEPT !.failureCount = @ + 1]
            /\ delays' = Append(delays, retryDelay(cache.failureCount))
       ELSE /\ cache' = [cache EXCEPT !.status = "error", !.fetchStatus = "idle",
                                      !.error = err, !.failureCount = @ + 1]
            /\ UNCHANGED delays
    /\ view' = Render(view.component, cache')
    /\ UNCHANGED <<invocations, posts, cycles>>
    /\ UNCHANGED <<apiVars, clientVars, concVars, pureVars, etfVars>>

\* the retry timer fires and the function is invoked again
RetryFires ==
    /\ Waiting
    /\ invocations' = invocations + 1
    /\ posts' = IF cache.hook = "useCreateUser"
                   /\ ~JSONStringify(cache.variables).threw
                THEN posts + 1 ELSE posts
    /\ UNCHANGED <<cache, delays, view, cycles>>
    /\ UNCHANGED <<apiVars, clientVars, concVars, pureVars, etfVars>>

\* refetch() of the error display, or the hook's refetchInterval
Refetch ==
    /\ cache.hook \in {HookOf(c) : c \in Components}
    /\ cache.fetchStatus = "idle"
    /\ cache.status \in {"success", "error"}
    /\ cycles < MaxCycles
    /\ cycles' = cycles + 1
    /\ cache' = IF cache.status = "success" \/ cache.data # JUndefined
                THEN [cache EXCEPT !.fetchStatus = "fetching", !.failureCount = 0]
                ELSE [cache EXCEPT !.fetchStatus = "fetching", !.failureCount = 0,
                                   !.status = "pending", !.error = NoError]
    /\ invocations' = 1
    /\ delays' = <<>>
    /\ view' = Render(view.component, cache')
    /\ UNCHANGED posts
    /\ UNCHANGED <<apiVars, clientVars, concVars, pureVars, etfVars>>

NextQuery ==
    \/ \E component \in Components, onServer \in BOOLEAN : Mount(component, onServer)
    \/ \E data \in UserData : Mutate(data)
    \/ \E value \in UNION {FetchedData(HookOf(c)) : c \in Components} \cup UserData :
          FnResolves(value)
    \/ \E err \in ThrownErrors \cup {StringifyTypeError(d) : d \in UserData} :
          FnRejects(err)
    \/ RetryFires
    \/ Refetch

SpecQuery == Init /\ [][NextQuery]_vars

(***************************************************************************)
(* The ETF service with its table as state: fetchETFData calls begin and   *)
(* return in any order and any number of times.                            *)
(***************************************************************************)
\* call i runs up to `await new Promise((resolve) => setTimeout(resolve, 800))`
EtfCall(i) ==
    /\ etfCalls[i].pc \in {"idle", "done"}
    /\ etfCalls' = [etfCalls EXCEPT ![i] = [pc |-> "timer", value |-> <<>>]]
    /\ UNCHANGED etfTable
    /\ UNCHANGED <<apiVars, clientVars, concVars, pureVars, queryVars>>

\* a map that writes the fluctuated price and yield into the table's rows
EtfReturnInPlace(i, draws) ==
    /\ etfCalls[i].pc = "timer"
    /\ etfTable' = [k \in 1..Len(etfTable) |->
                        FluctuatedEtf(etfTable[k], draws[2 * k - 1], draws[2 * k])]
    /\ etfCalls' = [etfCalls EXCEPT ![i] = [pc |-> "done", value |-> etfTable']]
    /\ UNCHANGED <<apiVars, clientVars, concVars, pureVars, queryVars>>

\* the timer of call i fires: TOP_DIVIDEND_ETFS.map(...) builds a new array
\* of new objects and the call returns it
EtfReturn(i, draws) ==
    /\ etfCalls[i].pc = "timer"
    /\ etfCalls' = [etfCalls EXCEPT ![i] =
                       [pc |-> "done",
                        value |-> [k \in 1..Len(etfTable) |->
                                     FluctuatedEtf(etfTable[k], draws[2 * k - 1],
                                                   draws[2 * k])]]]
    /\ UNCHANGED etfTable
    /\ UNCHANGED <<apiVars, clientVars, concVars, pureVars, queryVars>>

NextEtf ==
    \/ \E i \in Flights : EtfCall(i)
    \/ \E i \in Flights, draws \in RandomDraws : EtfReturn(i, draws)

SpecEtf == Init /\ [][NextEtf]_vars

(***************************************************************************)
(* Concurrent calls.  MaxFlights calls of safeRequest / safeFetch are in   *)
(* flight at once; each has its own activation (its parameters, the        *)
(* reply the host gave to its request, its Result) and the host answers    *)
(* the requests in any order.                                              *)
(***************************************************************************)
\* what the host can answer a concurrent call with
ConcResponses ==
    { r \in Responses :
        /\ r.headers = NoHeaders
        /\ r.status \in {200, 404}
        /\ r.body \in { <<"[", "1", ",", " ", "2", "0", "]">>,
                        <<"n", "o", "t", "-", "j", "s", "o", "n">> } }

\* a call that issues no request of its own while another call to the same
\* url is waiting for its response
ConcCallDeduplicated(i, fn, url) ==
    /\ flights[i].pc = "idle"
    /\ flights' = [flights EXCEPT ![i] =
                      [@ EXCEPT !.pc = "fetching", !.fn = fn, !.url = url,
                                !.fetches = IF \E j \in Flights :
                                                  /\ flights[j].pc = "fetching"
                                                  /\ flights[j].url = url
                                               THEN 0 ELSE 1]]
    /\ UNCHANGED <<apiVars, clientVars, pureVars, queryVars, etfVars>>

\* call i runs up to `await fetch(url, options)`
ConcCall(i, fn, url) ==
    /\ flights[i].pc = "idle"
    /\ flights' = [flights EXCEPT ![i] =
                      [@ EXCEPT !.pc = "fetching", !.fn = fn, !.url = url,
                                !.fetches = @ + 1]]
    /\ UNCHANGED <<apiVars, clientVars, pureVars, queryVars, etfVars>>

\* the activation of call i after safeRequest produced responseResult
ConcAfterRequest(f, responseResult) ==
    IF f.fn = "safeRequest"
    THEN [f EXCEPT !.pc = "done", !.result = Returned(responseResult)]
    ELSE IF isErr(responseResult)
    THEN [f EXCEPT !.pc = "done", !.result = Returned(PropagateErr(responseResult))]
    ELSE [f EXCEPT !.pc = "reading"]

ConcFetchResolves(i, resp) ==
    /\ flights[i].pc = "fetching"
    /\ flights' = [flights EXCEPT ![i] =
                      ConcAfterRequest([@ EXCEPT !.reply = [kind |-> "response",
                                                            response |-> resp]],
                                       safeRequestResolved(flights[i].url, resp))]
    /\ UNCHANGED <<apiVars, clientVars, pureVars, queryVars, etfVars>>

ConcFetchRejects(i, error) ==
    /\ flights[i].pc = "fetching"
    /\ flights' = [flights EXCEPT ![i] =
                      ConcAfterRequest([@ EXCEPT !.reply = [kind |-> "error",
                                                            error |-> error]],
                                       safeRequestRejected(flights[i].url, error))]
    /\ UNCHANGED <<apiVars, clientVars, pureVars, queryVars, etfVars>>

\* response.json() of call i completes
ConcBodyResolves(i) ==
    /\ flights[i].pc = "reading"
    /\ flights' = [flights EXCEPT ![i] =
                      [@ EXCEPT !.pc = "done",
                                !.read = [kind |-> "read"],
                                !.result = Returned(safeFetchDecoded(
                                               flights[i].url, flights[i].reply.response))]]
    /\ UNCHANGED <<apiVars, clientVars, pureVars, queryVars, etfVars>>

\* the body stream of call i fails while it is read
ConcBodyRejects(i, error) ==
    /\ flights[i].pc = "reading"
    /\ flights' = [flights EXCEPT ![i] =
                      [@ EXCEPT !.pc = "done",
                                !.read = [kind |-> "error", error |-> error],
                                !.result = Returned(safeFetchReadFailed(flights[i].url, error))]]
    /\ UNCHANGED <<apiVars, clientVars, pureVars, queryVars, etfVars>>

NextConc ==
    \/ \E i \in Flights, fn \in {"safeRequest", "safeFetch"}, url \in Urls :
          ConcCall(i, fn, url)
    \/ \E i \in Flights, resp \in ConcResponses : ConcFetchResolves(i, resp)
    \/ \E i \in Flights : ConcFetchRejects(i, [class |-> "TypeError",
                                               message |-> "Failed to fetch"])
    \/ \E i \in Flights : ConcBodyResolves(i)
    \/ \E i \in Flights : ConcBodyRejects(i, [class |-> "TypeError",
                                              message |-> "network error"])

SpecConc == Init /\ [][NextConc]_vars



(***************************************************************************)
(* Properties                                                              *)
(***************************************************************************)
Over == pc \in {"done", "adapted"}
FetchResolved == response # NoResponse
BodyDelivered == Over /\ FetchResolved /\ ResponseOk(response) /\ hostError = NoError
TheResult == settled.result
ReturnedErr(tag) ==
    /\ settled.kind = "returned"
    /\ TheResult.status = "error"
    /\ "tag" \in DOMAIN TheResult.error
    /\ TheResult.error.tag = tag

ApiErrorFields == {"tag", "class", "status", "statusText", "url", "message"}
NetworkErrorFields == {"tag", "class", "url", "cause", "message"}
ParseErrorFields == {"tag", "class", "cause", "message"}

\* C1: no function of the fetch layer ever throws or rejects: every call
\* that is over has settled by returning a Result.
C1_NeverRejects == Over => settled.kind = "returned"

C3_NonOkIsApiError ==
    (/\ call.fn \in {"safeRequest", "safeFetch"}
     /\ FetchResolved
     /\ ~(response.status \in 200..299))
    => /\ ReturnedErr("ApiError")
       /\ TheResult.error.status = response.status
       /\ TheResult.error.statusText = response.statusText
       /\ TheResult.error.url = call.url

C3_Witness ==
    /\ call.fn = "safeFetch"
    /\ call.url = "/api/users"
    /\ response.status = 300
    /\ ReturnedErr("ApiError")
    /\ TheResult.error.status = 300
    /\ TheResult.error.statusText = "Multiple Choices"

\* C4: when the transport fails (fetch rejects, or the body read of an
\* arrived response fails or is aborted), every function returns a failure
\* tagged NetworkError, never ApiError and never ParseError.
C4_TransportFailureIsNetworkError ==
    hostError # NoError =>
        /\ ReturnedErr("NetworkError")
        /\ TheResult.error.url = call.url
        /\ TheResult.error.cause = hostError

C4_Witness ==
    /\ call.fn = "safePostDownload"
    /\ hostError = [class |-> "DOMException", message |-> "The operation was aborted."]
    /\ ~FetchResolved
    /\ ReturnedErr("NetworkError")

\* C5: for a response with status in [200,299], safeRequest returns a
\* success wrapping that same response, whatever its body.
C5_OkResponseIsReturned ==
    (/\ call.fn = "safeRequest"
     /\ FetchResolved
     /\ response.status \in 200..299)
    => settled = Returned(Ok(response))

C5_Witness ==
    /\ call.fn = "safeRequest"
    /\ response.status = 204
    /\ ~JSONParse(response.body).ok
    /\ settled.kind = "returned"
    /\ TheResult.status = "ok"
    /\ TheResult.value = response


\* C6: for a 2xx response whose body is valid JSON, safeFetch returns a
\* success whose value is the decoded JSON.
C6_ValidJsonIsDecoded ==
    (/\ call.fn = "safeFetch"
     /\ BodyDelivered
     /\ JSONParse(response.body).ok)
    => settled = Returned(Ok(JSONParse(response.body).val))

C6_Witness ==
    /\ call.fn = "safeFetch"
    /\ response.status = 200
    /\ response.body = <<"[", "1", ",", " ", "2", "0", "]">>
    /\ settled = Returned(Ok(JArr(<<JNum(1), JNum(20)>>)))

\* C7: for a 2xx response whose body is not valid JSON, safeFetch returns
\* a failure tagged ParseError, and safeRequest returns success for the
\* same response.
C7_InvalidJsonIsParseError ==
    /\ (/\ call.fn = "safeFetch"
        /\ BodyDelivered
        /\ ~JSONParse(response.body).ok)
       => ReturnedErr("ParseError")
    /\ (/\ call.fn = "safeRequest"
        /\ FetchResolved
        /\ response.status \in 200..299
        /\ ~JSONParse(response.body).ok)
       => (settled.kind = "returned" /\ TheResult.status = "ok")

C7_Witness ==
    /\ call.fn = "safeFetch"
    /\ response.status = 200
    /\ response.body = <<"n", "o", "t", "-", "j", "s", "o", "n">>
    /\ ReturnedErr("ParseError")

\* C8: the request issued by safePost, safePut and safePatch carries the
\* content-type header application/json, whatever headers the caller's
\* options supply.
C8_ContentTypeIsJson ==
    (call.fn \in {"safePost", "safePut", "safePatch"} /\ fetches = 1)
    => WireHeader(request.init, "content-type") = "application/json"

\* C9: errorWrapper returns the value of a success unchanged, and for a
\* failure throws an Error whose message is "API Error: {status} -
\* {statusText}", "Network Error: {message}" or "Parse Error: {message}"
\* according to the error's tag.
C9_AdapterMessages ==
    adapter.kind = "ran" =>
        IF TheResult.status = "ok"
        THEN adapter.out = [threw |-> FALSE, value |-> TheResult.value]
        ELSE /\ adapter.out.threw
             /\ adapter.out.value.class = "Error"
             /\ LET e == TheResult.error
                    m == adapter.out.value.message
                IN  /\ e.tag = "ApiError" =>
                          m = "API Error: " \o ToString(e.status) \o " - " \o e.statusText
                    /\ e.tag = "NetworkError" => m = "Network Error: " \o e.message
                    /\ e.tag = "ParseError" => m = "Parse Error: " \o e.message

C9_Witness ==
    /\ adapter.kind = "ran"
    /\ ReturnedErr("ApiError")
    /\ adapter.out.threw
    /\ adapter.out.value.message = "API Error: 404 - Not Found"

\* C10 as claimed: errorWrapper on a failure holding a NetworkError whose
\* message is M throws an exception whose message is exactly M.
C10_ThrownMessageIsExactlyM ==
    (adapter.kind = "ran" /\ ReturnedErr("NetworkError"))
    => (adapter.out.threw /\ adapter.out.value.message = TheResult.error.message)

\* C10 as amended: errorWrapper on a failure holding a NetworkError whose
\* message is M throws an exception whose message is "Network Error: "
\* followed by M.
C10_ThrownMessageIsPrefixedM ==
    (adapter.kind = "ran" /\ ReturnedErr("NetworkError"))
    => (/\ adapter.out.threw
        /\ adapter.out.value.message = "Network Error: " \o TheResult.error.message)

C10_Witness ==
    /\ adapter.kind = "ran"
    /\ ReturnedErr("NetworkError")
    /\ TheResult.error.message = "Network error fetching X: timeout"
    /\ adapter.out.value.message = "Network Error: Network error fetching X: timeout"


\* the token with one pair of surrounding quotes removed, if it has one
StripSurroundingQuotes(t) ==
    IF Len(t) >= 2 /\ t[1] \in {"'", "\""} /\ t[Len(t)] = t[1]
    THEN SubSeq(t, 2, Len(t) - 1)
    ELSE t

DownloadReturned ==
    /\ call.fn \in {"safeDownload", "safePostDownload"}
    /\ settled.kind = "returned"
    /\ TheResult.status = "ok"

\* C12: for Content-Disposition: attachment; filename="report.csv" the
\* download wrappers return filename "report.csv": the quoted or unquoted
\* token after filename= with its surrounding quotes stripped; when the
\* header is absent or does not match the pattern they return null.
C12_FilenameIsTokenWithoutSurroundingQuotes ==
    DownloadReturned =>
        LET cd == HeaderGet(response, "content-disposition")
            m == FilenameMatch(cd.text, 1)
        IN  IF cd.isNull \/ ~m.ok
            THEN TheResult.value.filename = Null
            ELSE TheResult.value.filename = Text(StripSurroundingQuotes(m.group))

SafeFetchReturns ==
    IF ~FetchResolved THEN safeRequestRejected(request.url, hostError)
    ELSE IF ~(response.status \in 200..299)
    THEN safeRequestResolved(request.url, response)
    ELSE IF hostError # NoError THEN safeFetchReadFailed(request.url, hostError)
    ELSE safeFetchDecoded(request.url, response)

\* C14: safeFetch returns the error of a failed safeRequest unchanged, and
\* safePost, safePut, safePatch, safeDelete and safePostUpload return what
\* safeFetch returns for their request, with no error variant of their own.
C14_ErrorsPropagateUnchanged ==
    (Family(call.fn) = "json" /\ settled.kind = "returned") =>
        /\ ~FetchResolved => TheResult = safeRequestRejected(request.url, hostError)
        /\ (FetchResolved /\ ~(response.status \in 200..299))
              => TheResult = safeRequestResolved(request.url, response)
        /\ TheResult = SafeFetchReturns

C14_Witness ==
    /\ call.fn = "safeDelete"
    /\ response.status = 500
    /\ ReturnedErr("ApiError")
    /\ TheResult = Err(ApiError(500, "", call.url))

\* C15: safeDownload and safePostDownload never return a ParseError: they
\* fail with ApiError for a non-2xx status and with NetworkError for every
\* other failure, a failed read of the binary body included.
C15_DownloadNeverParseError ==
    (/\ call.fn \in {"safeDownload", "safePostDownload"}
     /\ settled.kind = "returned"
     /\ TheResult.status = "error")
    => /\ ~ReturnedErr("ParseError")
       /\ IF FetchResolved /\ ~(response.status \in 200..299)
          THEN ReturnedErr("ApiError")
          ELSE ReturnedErr("NetworkError") /\ TheResult.error.cause = hostError

C15_Witness ==
    /\ call.fn = "safeDownload"
    /\ response.status = 200
    /\ hostError = [class |-> "TypeError", message |-> "network error"]
    /\ ReturnedErr("NetworkError")

\* C16: in safeFetch a failure during body decoding that is not a JSON
\* syntax error is returned as NetworkError{url, cause}; only a JSON syntax
\* error yields ParseError.
C16_DecodeFailureClasses ==
    (call.fn = "safeFetch" /\ settled.kind = "returned") =>
        /\ (FetchResolved /\ hostError # NoError)
              => /\ ReturnedErr("NetworkError")
                 /\ TheResult.error.url = call.url
                 /\ TheResult.error.cause = hostError
        /\ ReturnedErr("ParseError")
              => /\ hostError = NoError
                 /\ ~JSONParse(response.body).ok
                 /\ TheResult.error.cause = JsonSyntaxError(response.body)

C16_Witness ==
    /\ call.fn = "safeFetch"
    /\ response.status = 200
    /\ JSONParse(response.body).ok
    /\ hostError = [class |-> "DOMException", message |-> "The operation was aborted."]
    /\ ReturnedErr("NetworkError")

\* C20: safeFetch reads the body only of a response safeRequest accepted:
\* a non-2xx response gives ApiError with its status and status text
\* whether or not its body is JSON, and its body is never read.
C20_NonOkBodyNeverRead ==
    /\ pc = "reading" => response.status \in 200..299
    /\ (/\ call.fn = "safeFetch"
        /\ FetchResolved
        /\ ~(response.status \in 200..299))
       => /\ pc # "reading"
          /\ hostError = NoError
          /\ TheResult = Err(ApiError(response.status, response.statusText, call.url))

C20_Witness ==
    /\ call.fn = "safeFetch"
    /\ response.status = 404
    /\ JSONParse(response.body).ok
    /\ TheResult.error.tag = "ApiError"
    /\ TheResult.error.status = 404
    /\ TheResult.error.statusText = "Not Found"


\* the queryFn / mutationFn of a hook has settled after its service
\* returned a failed Result
HookFailed ==
    /\ pc = "hooked"
    /\ service.kind = "returned"
    /\ isErr(service.result)

ApiErrorsReturned ==
    { r.result.error : r \in { o \in {settled, service} :
                                 /\ o.kind = "returned"
                                 /\ isErr(o.result)
                                 /\ o.result.error.tag = "ApiError" } }

\* C17: every ApiError returned by the fetch layer or by a service carries
\* the status and status text of a response that arrived with a status
\* outside 200..299.
C17_ApiErrorIsOfNonOkResponse ==
    \A e \in ApiErrorsReturned :
        /\ FetchResolved
        /\ ~ResponseOk(response)
        /\ e.status = response.status
        /\ e.statusText = response.statusText


\* C18: no client is handed down in two different server requests, and in
\* a browser every QueryProvider is handed the one client of the session.
C18_ClientLifecycle ==
    /\ window = "undefined"
       => \A p \in provided, q \in provided : p.client = q.client => p.scope = q.scope
    /\ window = "object"
       => \A p \in provided, q \in provided :
             (p.by = "QueryProvider" /\ q.by = "QueryProvider") => p.client = q.client

\* the Result safeRequest / safeFetch gives for the activation's own url and
\* the host's reply to its own request
OwnResult(f) ==
    LET responseResult ==
            IF f.reply.kind = "error" THEN safeRequestRejected(f.url, f.reply.error)
            ELSE safeRequestResolved(f.url, f.reply.response)
    IN  IF f.fn = "safeRequest" THEN responseResult
        ELSE IF isErr(responseResult) THEN Err(responseResult.error)
        ELSE IF f.read.kind = "error" THEN safeFetchReadFailed(f.url, f.read.error)
        ELSE safeFetchDecoded(f.url, f.reply.response)

\* C19: under every interleaving of the concurrent calls, each call that
\* has begun has issued exactly one HTTP request of its own, also when
\* another call to the same url is in flight, and the Result of each
\* finished call is the one determined by its own url and the reply to its
\* own request.
C19_CallsAreIndependent ==
    \A i \in Flights :
        /\ flights[i].pc # "idle" => flights[i].fetches = 1
        /\ flights[i].pc = "done" => flights[i].result = Returned(OwnResult(flights[i]))

\* two calls to the same url are in flight together and end differently
C19_Witness ==
    /\ flights[1].pc = "done"
    /\ flights[2].pc = "done"
    /\ flights[1].fn = "safeFetch"
    /\ flights[2].fn = "safeFetch"
    /\ flights[1].url = flights[2].url
    /\ flights[1].fetches = 1
    /\ flights[2].fetches = 1
    /\ flights[1].result.result = Ok(JArr(<<JNum(1), JNum(20)>>))
    /\ flights[2].result.result.error.tag = "ApiError"

\* the call has issued its request
Issued == call.fn # "none" /\ fetches = 1

\* C21: the request issued by safePost, safePut, safePatch and
\* safePostDownload has the wrapper's own method and, as its body, the JSON
\* text of the given body; the request of safeDelete has method DELETE;
\* a method or body in the caller's options never replaces them.
C21_MethodAndBodyAreTheWrappers ==
    /\ (Issued /\ call.fn \in {"safePost", "safePut", "safePatch", "safePostDownload"})
       => /\ WireMethod(request.init)
               = (CASE call.fn = "safePut" -> "PUT"
                    [] call.fn = "safePatch" -> "PATCH"
                    [] OTHER -> "POST")
          /\ WireBody(request.init)
               = (IF call.body = JUndefined THEN Undefined
                  ELSE BodyText(ValueText(call.body)))
    /\ (Issued /\ call.fn = "safeDelete") => WireMethod(request.init) = "DELETE"

C21_Witness ==
    /\ Issued
    /\ call.fn = "safePut"
    /\ "method" \in DOMAIN call.options
    /\ call.options["method"] = "GET"
    /\ call.options["body"] = BodyText(<<"x">>)
    /\ WireMethod(request.init) = "PUT"
    /\ WireBody(request.init) = BodyText(<<"[", "1", ",", "2", "0", "]">>)

\* C22: the request issued by safeDelete carries no body, whatever options
\* the caller passes.
C22_DeleteHasNoBody ==
    (Issued /\ call.fn = "safeDelete") => WireBody(request.init).isNull

\* C23: the request issued by safePostUpload has method POST and the given
\* form data as its body, and its headers are the caller's: the wrapper
\* adds none, so without a caller's Content-Type the request has none and
\* the host supplies the multipart one.
C23_UploadSetsNoContentType ==
    (Issued /\ call.fn = "safePostUpload")
    => /\ WireMethod(request.init) = "POST"
       /\ WireBody(request.init) = call.body
       /\ OptionHeaders(request.init) = OptionHeaders(call.options)
       /\ WireHeader(call.options, "content-type") = ""
          => WireHeader(request.init, "content-type") = ""

C23_Witness ==
    /\ Issued
    /\ call.fn = "safePostUpload"
    /\ call.options = [method |-> "GET", body |-> BodyText(<<"x">>)]
    /\ WireMethod(request.init) = "POST"
    /\ WireBody(request.init) = FormData(1)
    /\ WireHeader(request.init, "content-type") = ""

\* C28: for a 2xx response whose body is empty and was delivered, safeFetch
\* and the JSON wrappers, safeDelete included, return a failure tagged
\* ParseError.
C28_EmptyBodyIsParseError ==
    (/\ Family(call.fn) = "json"
     /\ BodyDelivered
     /\ response.body = <<>>)
    => /\ ReturnedErr("ParseError")
       /\ TheResult.error.message = "Failed to parse response: Unexpected end of JSON input"

C28_Witness ==
    /\ call.fn = "safeDelete"
    /\ response.status = 204
    /\ response.statusText = "No Content"
    /\ response.body = <<>>
    /\ ReturnedErr("ParseError")

\* fetchGoldPrice has returned or raised
GoldServed == hook.name = "useGoldPrice" /\ pc \in {"served", "hooked"}

C25_RetryDelayIsCappedDoubling ==
    pureIn.fn = "retryDelay"
    => LET k == pureIn.arg
           twice == 2 * retryDelay(k - 1)
       IN  /\ pureOut = (IF k <= 4 THEN 1000 * 2^k ELSE 30000)
           /\ pureOut <= 30000
           /\ k > 0 => /\ retryDelay(k - 1) <= pureOut
                        /\ pureOut = (IF twice <= 30000 THEN twice ELSE 30000)

\* the first attempt whose doubled delay (32000) is cut to the ceiling
C25_Witness ==
    /\ pureIn = [fn |-> "retryDelay", arg |-> 5]
    /\ pureOut = 30000

\* the text without its commas
NoCommas(t) == SelectSeq(t, LAMBDA c : c # ",")

\* digits with at most one point and at least one digit
IsPlainDecimal(u) ==
    /\ \A i \in 1..Len(u) : IsDigit(u[i]) \/ u[i] = "."
    /\ Cardinality({i \in 1..Len(u) : u[i] = "."}) <= 1
    /\ \E i \in 1..Len(u) : IsDigit(u[i])

\* the text begins, after blanks and a sign, with a digit or a point and a digit
StartsNumber(u) ==
    \E i \in 1..Len(u) :
        /\ \A j \in 1..(i - 1) : u[j] = " " \/ (j = i - 1 /\ u[j] \in {"+", "-"})
        /\ \/ IsDigit(u[i])
           \/ u[i] = "." /\ i < Len(u) /\ IsDigit(u[i + 1])

RECURSIVE NatOf(_)
NatOf(u) == IF u = <<>> THEN 0 ELSE NatOf(SubSeq(u, 1, Len(u) - 1)) * 10 + DigitVal(u[Len(u)])

\* the number a plain decimal writes: [int, frac] with frac's trailing
\* zeros left out
DecimalOf(u) ==
    LET point == IF \E i \in 1..Len(u) : u[i] = "."
                 THEN CHOOSE i \in 1..Len(u) : u[i] = "." ELSE Len(u) + 1
        frac == SubSeq(u, point + 1, Len(u))
        last == IF \E i \in 1..Len(frac) : frac[i] # "0"
                THEN CHOOSE i \in 1..Len(frac) :
                         frac[i] # "0" /\ \A j \in (i + 1)..Len(frac) : frac[j] = "0"
                ELSE 0
    IN  [kind |-> "number", neg |-> FALSE, val |-> NatOf(SubSeq(u, 1, point - 1)),
         frac |-> SubSeq(frac, 1, last)]

C30_EtfTableIsNeverModified ==
    /\ etfTable = TOP_DIVIDEND_ETFS
    /\ \A i \in Flights :
          etfCalls[i].pc = "done"
          => /\ Len(etfCalls[i].value) = 6
             /\ \A k \in 1..6 :
                   /\ etfCalls[i].value[k].symbol = TOP_DIVIDEND_ETFS[k].symbol
                   /\ \E r \in 0..99 :
                         etfCalls[i].value[k].price
                           = TOP_DIVIDEND_ETFS[k].price * (4950 + r)
                   /\ \E r \in 0..99 :
                         etfCalls[i].value[k].dividendYield
                           = TOP_DIVIDEND_ETFS[k].dividendYield * (9950 + r)

\* two calls have returned different fluctuations of the same base row
C30_Witness ==
    /\ etfCalls[1].pc = "done"
    /\ etfCalls[2].pc = "done"
    /\ etfCalls[1].value[1] = [symbol |-> "SCHD", price |-> 8245 * 4950,
                                dividendYield |-> 352 * 9950]
    /\ etfCalls[2].value[1] = [symbol |-> "SCHD", price |-> 8245 * 5049,
                                dividendYield |-> 352 * 10049]
    /\ etfTable[1].price = 8245

\* C26: a mutation is never retried: when createUser fails the mutation
\* function of useCreateUser has been invoked exactly once for the mutate
\* call and exactly one POST has been issued, no retry having been
\* scheduled; a failing query is retried at most 3 times.
C26_MutationPostsOnceQueryRetriesThrice ==
    /\ cache.hook = "useCreateUser"
       => /\ delays = <<>>
          /\ cache.status = "error" => invocations = 1 /\ posts = 1
    /\ cache.hook \in {HookOf(c) : c \in Components}
       => Len(delays) <= 3 /\ invocations <= 4

\* C29: every rendered component shows exactly one view, chosen in the
\* priority loading skeleton, error display, no-data view, data view; a
\* query in error that still holds data shows the error display.
C29_ViewPriority ==
    view.component \in Components
    => LET loading == cache.status = "pending" /\ cache.fetchStatus = "fetching"
           failed == cache.status = "error"
           nodata == \/ cache.data \in {JUndefined, JNull}
                     \/ view.component = "UserList" /\ cache.data = JArr(<<>>)
       IN  /\ view.view \in {"LoadingSkeleton", "ErrorDisplay", "EmptyState", "data"}
           /\ view.view = "LoadingSkeleton"
                <=> loading \/ (~failed /\ nodata /\ view.component # "UserList")
           /\ view.view = "ErrorDisplay" <=> ~loading /\ failed
           /\ view.view = "EmptyState"
                <=> ~loading /\ ~failed /\ nodata /\ view.component = "UserList"
           /\ view.view = "data" <=> ~loading /\ ~failed /\ ~nodata

\* a refetch of the gold feed has failed after its retries while the data
\* of the first fetch is still held, and the error display is shown
C29_Witness ==
    /\ view = [component |-> "GoldFeed", view |-> "ErrorDisplay"]
    /\ cache.status = "error"
    /\ cache.data = JObj(<<<<Key.price, JNum(1)>>>>)
    /\ cycles = 1
    /\ invocations = 4

====
